---- MODULE Spec2Model ----
(***************************************************************************)
(* SCOS-2000 MIB index: the table parsers and the index builder of         *)
(* src/src/mibParser.ts (the eight-table builder, lines 1-360) and the     *)
(* search layer of src/src/search.ts, and the reverse-search quick pick of *)
(* src/src/extension.ts.                                                   *)
(*                                                                         *)
(* A JavaScript string is a sequence of one-character strings, so that     *)
(* trim, split, toLowerCase, includes and the comparisons are computed     *)
(* character by character.  JavaScript's undefined is the value Undefined, *)
(* which no string of characters equals.                                   *)
(***************************************************************************)
EXTENDS Integers, Sequences, FiniteSets, TLC

TAB == "\t"

Undefined == <<"undefined">>

\* The printable ASCII characters in code-unit order, from code 32 to 126
\* (code 96, the grave accent, cannot be written in a TLA+ string and is
\* spelled out; no input uses it).
Ascii ==
  << " ", "!", "\"", "#", "$", "%", "&", "'", "(", ")", "*", "+", ",", "-",
     ".", "/", "0", "1", "2", "3", "4", "5", "6", "7", "8", "9", ":", ";",
     "<", "=", ">", "?", "@", "A", "B", "C", "D", "E", "F", "G", "H", "I",
     "J", "K", "L", "M", "N", "O", "P", "Q", "R", "S", "T", "U", "V", "W",
     "X", "Y", "Z", "[", "\\", "]", "^", "_", "grave", "a", "b", "c", "d", "e",
     "f", "g", "h", "i", "j", "k", "l", "m", "n", "o", "p", "q", "r", "s",
     "t", "u", "v", "w", "x", "y", "z", "{", "|", "}", "~" >>

\* UTF-16 code unit of a character, tabulated once.
CodeOf(c) ==
  IF c = TAB THEN 9
  ELSE IF c = "\n" THEN 10
  ELSE IF c = "\f" THEN 12
  ELSE IF c = "\r" THEN 13
  ELSE 31 + (CHOOSE i \in 1..Len(Ascii) : Ascii[i] = c)

Characters == {Ascii[i] : i \in 1..Len(Ascii)} \cup {TAB, "\n", "\f", "\r"}

CharCodeTable == [c \in Characters |-> CodeOf(c)]

CharCode(c) == CharCodeTable[c]

CharOfCode(k) == Ascii[k - 31]

\* Truthiness of a string-or-undefined value: "" and undefined are falsy.
Truthy(v) == v # Undefined /\ v # <<>>

\* String.prototype.toLowerCase / toUpperCase on ASCII.
LowerOf(c) ==
  LET k == CodeOf(c) IN IF k >= 65 /\ k <= 90 THEN CharOfCode(k + 32) ELSE c

UpperOf(c) ==
  LET k == CodeOf(c) IN IF k >= 97 /\ k <= 122 THEN CharOfCode(k - 32) ELSE c

LowerTable == [c \in Characters |-> LowerOf(c)]

UpperTable == [c \in Characters |-> UpperOf(c)]

LowerChar(c) == LowerTable[c]

UpperChar(c) == UpperTable[c]

ToLowerCase(s) == [i \in 1..Len(s) |-> LowerChar(s[i])]

ToUpperCase(s) == [i \in 1..Len(s) |-> UpperChar(s[i])]

\* The white space String.prototype.trim removes, within the alphabet used.
IsWhiteSpace(c) == c \in {" ", TAB, "\n", "\r", "\f"}

RECURSIVE TrimStart(_)
TrimStart(s) ==
  IF s = <<>> THEN s
  ELSE IF IsWhiteSpace(Head(s)) THEN TrimStart(Tail(s)) ELSE s

RECURSIVE TrimEnd(_)
TrimEnd(s) ==
  IF s = <<>> THEN s
  ELSE IF IsWhiteSpace(s[Len(s)]) THEN TrimEnd(SubSeq(s, 1, Len(s) - 1)) ELSE s

Trim(s) == TrimEnd(TrimStart(s))

\* String.prototype.startsWith for a one-character prefix.
StartsWith(s, c) == Len(s) >= 1 /\ s[1] = c

\* String.prototype.includes: q occurs in s as a contiguous substring.
Includes(s, q) ==
  \E i \in 0..(Len(s) - Len(q)) : SubSeq(s, i + 1, i + Len(q)) = q

\* String.prototype.split on a one-character separator.
RECURSIVE Split(_, _)
Split(s, sep) ==
  IF \A i \in 1..Len(s) : s[i] # sep THEN <<s>>
  ELSE LET k == CHOOSE i \in 1..Len(s) :
                  s[i] = sep /\ \A j \in 1..(i - 1) : s[j] # sep
       IN  <<SubSeq(s, 1, k - 1)>> \o Split(SubSeq(s, k + 1, Len(s)), sep)

splitDatLine(line) ==
  LET parts == Split(line, TAB) IN [i \in 1..Len(parts) |-> Trim(parts[i])]

\* cols[k] with a 0-based k: undefined past the end of the array.
Col(cols, k) == IF k >= 0 /\ k < Len(cols) THEN cols[k + 1] ELSE Undefined

\* The guard every parser starts with: blank, white space only, or # comment.
IsSkippedLine(line) ==
  \/ ~Truthy(line)
  \/ Len(Trim(line)) = 0
  \/ StartsWith(Trim(line), "#")

\* Code-unit comparison of two strings (the default Array.prototype.sort order).
RECURSIVE StrLess(_, _)
StrLess(a, b) ==
  IF b = <<>> THEN FALSE
  ELSE IF a = <<>> THEN TRUE
  ELSE IF CharCode(Head(a)) # CharCode(Head(b))
       THEN CharCode(Head(a)) < CharCode(Head(b))
       ELSE StrLess(Tail(a), Tail(b))

\* Array.from(set).sort(): the strings of a Set in ascending code-unit order.
RECURSIVE SortedStrings(_)
SortedStrings(set) ==
  IF set = {} THEN <<>>
  ELSE LET m == CHOOSE x \in set : \A y \in set \ {x} : StrLess(x, y)
       IN  <<m>> \o SortedStrings(set \ {m})

(***************************************************************************)
(* A JavaScript Map: the sequence of its [k, v] pairs in insertion order.  *)
(* Setting an existing key keeps its position.                             *)
(***************************************************************************)
MapHas(m, key) == \E i \in 1..Len(m) : m[i].k = key

MapIndex(m, key) == CHOOSE i \in 1..Len(m) : m[i].k = key

MapGet(m, key) == m[MapIndex(m, key)].v

MapSet(m, key, val) ==
  IF MapHas(m, key) THEN [m EXCEPT ![MapIndex(m, key)].v = val]
  ELSE Append(m, [k |-> key, v |-> val])

MapKeys(m) == {m[i].k : i \in 1..Len(m)}

(***************************************************************************)
(* Table parsers (src/src/mibParser.ts).  Every loop runs i = 0, 1, ... as *)
(* the code does; lines[i] of the code is lines[i + 1] here.               *)
(***************************************************************************)

\* parseCcfRow without its "if (!id) continue": a row with an empty first
\* column becomes an entry.
parseCcfRowNoIdGuard(entries, line, sourcePath, i) ==
  IF IsSkippedLine(line) THEN entries
  ELSE LET cols == splitDatLine(line)
       IN  Append(entries,
             [ id          |-> Col(cols, 0),
               name        |-> Col(cols, 1),
               description |-> Col(cols, 2),
               header      |-> Col(cols, 5),
               serviceType |-> Col(cols, 6),
               subService  |-> Col(cols, 7),
               apid        |-> Col(cols, 8),
               sourcePath  |-> sourcePath,
               sourceLine  |-> i + 1,
               params      |-> <<>> ])

\* parseCcfRow numbering the rows it keeps instead of the lines it reads.
parseCcfRowCountingRows(entries, line, sourcePath, i) ==
  IF IsSkippedLine(line) THEN entries
  ELSE LET cols == splitDatLine(line)
           id   == Col(cols, 0)
       IN  IF ~Truthy(id) THEN entries
           ELSE Append(entries,
                  [ id          |-> id,
                    name        |-> Col(cols, 1),
                    description |-> Col(cols, 2),
                    header      |-> Col(cols, 5),
                    serviceType |-> Col(cols, 6),
                    subService  |-> Col(cols, 7),
                    apid        |-> Col(cols, 8),
                    sourcePath  |-> sourcePath,
                    sourceLine  |-> Len(entries) + 1,
                    params      |-> <<>> ])

\* One iteration of the loop of parseCcfLines: the entries array after line i.
parseCcfRow(entries, line, sourcePath, i) ==
  IF IsSkippedLine(line) THEN entries
  ELSE LET cols == splitDatLine(line)
           id   == Col(cols, 0)
       IN  IF ~Truthy(id) THEN entries
           ELSE Append(entries,
                  [ id          |-> id,
                    name        |-> Col(cols, 1),
                    description |-> Col(cols, 2),
                    header      |-> Col(cols, 5),
                    serviceType |-> Col(cols, 6),
                    subService  |-> Col(cols, 7),
                    apid        |-> Col(cols, 8),
                    sourcePath  |-> sourcePath,
                    sourceLine  |-> i + 1,
                    params      |-> <<>> ])

RECURSIVE parseCcfLinesFrom(_, _, _, _)
parseCcfLinesFrom(lines, sourcePath, i, entries) ==
  IF i >= Len(lines) THEN entries
  ELSE parseCcfLinesFrom(lines, sourcePath, i + 1,
                         parseCcfRow(entries, lines[i + 1], sourcePath, i))

parseCcfLines(lines, sourcePath) == parseCcfLinesFrom(lines, sourcePath, 0, <<>>)

\* parsePidRow without its "if (!sid) continue".
parsePidRowNoSidGuard(entries, line, sourcePath, i) ==
  IF IsSkippedLine(line) THEN entries
  ELSE LET cols == splitDatLine(line)
       IN  Append(entries,
             [ sid         |-> Col(cols, 5),
               service     |-> Col(cols, 0),
               subService  |-> Col(cols, 1),
               description |-> Col(cols, 6),
               sourcePath  |-> sourcePath,
               sourceLine  |-> i + 1,
               params      |-> <<>> ])

\* One iteration of the loop of parsePidLines.
parsePidRow(entries, line, sourcePath, i) ==
  IF IsSkippedLine(line) THEN entries
  ELSE LET cols == splitDatLine(line)
           sid  == Col(cols, 5)
       IN  IF ~Truthy(sid) THEN entries
           ELSE Append(entries,
                  [ sid         |-> sid,
                    service     |-> Col(cols, 0),
                    subService  |-> Col(cols, 1),
                    description |-> Col(cols, 6),
                    sourcePath  |-> sourcePath,
                    sourceLine  |-> i + 1,
                    params      |-> <<>> ])

RECURSIVE parsePidLinesFrom(_, _, _, _)
parsePidLinesFrom(lines, sourcePath, i, entries) ==
  IF i >= Len(lines) THEN entries
  ELSE parsePidLinesFrom(lines, sourcePath, i + 1,
                         parsePidRow(entries, lines[i + 1], sourcePath, i))

parsePidLines(lines, sourcePath) == parsePidLinesFrom(lines, sourcePath, 0, <<>>)

\* One iteration of the loop of parsePcfLines: entries is the Map being built.
parsePcfRow(entries, line) ==
  IF IsSkippedLine(line) THEN entries
  ELSE LET cols    == splitDatLine(line)
           paramId == Col(cols, 0)
       IN  IF ~Truthy(paramId) THEN entries
           ELSE MapSet(entries, paramId,
                  [ paramId   |-> paramId,
                    name      |-> Col(cols, 1),
                    enumSetId |-> Col(cols, 11),
                    raw       |-> cols ])

RECURSIVE parsePcfLinesFrom(_, _, _)
parsePcfLinesFrom(lines, i, entries) ==
  IF i >= Len(lines) THEN entries
  ELSE parsePcfLinesFrom(lines, i + 1, parsePcfRow(entries, lines[i + 1]))

parsePcfLines(lines) == parsePcfLinesFrom(lines, 0, <<>>)

\* plfParam without "|| paramId": the name is the definition's name as it is.
plfParamNoFallback(cols, paramId, pcfByParamId_) ==
  LET hasPcf == MapHas(pcfByParamId_, paramId)
  IN  [ name         |-> IF hasPcf THEN MapGet(pcfByParamId_, paramId).name
                         ELSE Undefined,
        kind         |-> <<"P">>,
        bitLength    |-> Undefined,
        bitOffset    |-> Undefined,
        paramId      |-> paramId,
        enumSetId    |-> IF hasPcf THEN MapGet(pcfByParamId_, paramId).enumSetId
                         ELSE Undefined,
        raw          |-> cols,
        enumerations |-> Undefined ]

\* The ParamEntry parsePlfLines pushes: pcfEntry?.name || paramId, and
\* pcfEntry?.enumSetId.
plfParam(cols, paramId, pcfByParamId_) ==
  LET hasPcf == MapHas(pcfByParamId_, paramId)
      pcfName == IF hasPcf THEN MapGet(pcfByParamId_, paramId).name ELSE Undefined
  IN  [ name         |-> IF Truthy(pcfName) THEN pcfName ELSE paramId,
        kind         |-> <<"P">>,
        bitLength    |-> Undefined,
        bitOffset    |-> Undefined,
        paramId      |-> paramId,
        enumSetId    |-> IF hasPcf THEN MapGet(pcfByParamId_, paramId).enumSetId
                         ELSE Undefined,
        raw          |-> cols,
        enumerations |-> Undefined ]

\* parsePlfRow creating a TelemetryEntry for a sid it does not find.
parsePlfRowUpsert(telemetryBySid_, line, pcfByParamId_) ==
  IF IsSkippedLine(line) THEN telemetryBySid_
  ELSE LET cols    == splitDatLine(line)
           paramId == Col(cols, 0)
           sid     == Col(cols, 1)
       IN  IF ~Truthy(paramId) \/ ~Truthy(sid) THEN telemetryBySid_
           ELSE LET target == IF MapHas(telemetryBySid_, sid)
                              THEN MapGet(telemetryBySid_, sid)
                              ELSE [ sid         |-> sid,
                                     service     |-> Undefined,
                                     subService  |-> Undefined,
                                     description |-> Undefined,
                                     sourcePath  |-> "",
                                     sourceLine  |-> 0,
                                     params      |-> <<>> ]
                IN  MapSet(telemetryBySid_, sid,
                      [target EXCEPT !.params =
                         Append(@, plfParam(cols, paramId, pcfByParamId_))])

\* One iteration of the loop of parsePlfLines: the telemetry Map after the line.
\* A TelemetryEntry is referenced by telemetryBySid alone, so the Map holds
\* the entry itself and a push on target.params is an update in place.
parsePlfRow(telemetryBySid_, line, pcfByParamId_) ==
  IF IsSkippedLine(line) THEN telemetryBySid_
  ELSE LET cols    == splitDatLine(line)
           paramId == Col(cols, 0)
           sid     == Col(cols, 1)
       IN  IF ~Truthy(paramId) \/ ~Truthy(sid) THEN telemetryBySid_
           ELSE IF ~MapHas(telemetryBySid_, sid) THEN telemetryBySid_
           ELSE LET target == MapGet(telemetryBySid_, sid)
                IN  MapSet(telemetryBySid_, sid,
                      [target EXCEPT !.params =
                         Append(@, plfParam(cols, paramId, pcfByParamId_))])

RECURSIVE parsePlfLinesFrom(_, _, _, _)
parsePlfLinesFrom(lines, i, telemetryBySid_, pcfByParamId_) ==
  IF i >= Len(lines) THEN telemetryBySid_
  ELSE parsePlfLinesFrom(lines, i + 1,
         parsePlfRow(telemetryBySid_, lines[i + 1], pcfByParamId_), pcfByParamId_)

parsePlfLines(lines, telemetryBySid_, pcfByParamId_) ==
  parsePlfLinesFrom(lines, 0, telemetryBySid_, pcfByParamId_)

\* cdfParam reading paramId one column to the left.
cdfParamShifted(cols) ==
  [ name         |-> IF Col(cols, 2) = Undefined THEN <<>> ELSE Col(cols, 2),
    kind         |-> Col(cols, 1),
    bitLength    |-> Col(cols, 3),
    bitOffset    |-> Col(cols, 4),
    paramId      |-> Col(cols, 5),
    enumSetId    |-> Undefined,
    raw          |-> cols,
    enumerations |-> Undefined ]

\* The ParamEntry parseCdfLines pushes.
cdfParam(cols) ==
  [ name         |-> IF Col(cols, 2) = Undefined THEN <<>> ELSE Col(cols, 2),
    kind         |-> Col(cols, 1),
    bitLength    |-> Col(cols, 3),
    bitOffset    |-> Col(cols, 4),
    paramId      |-> Col(cols, 6),
    enumSetId    |-> Undefined,
    raw          |-> cols,
    enumerations |-> Undefined ]

\* parseCdfRow with unshift in place of push: the newest row comes first.
parseCdfRowUnshift(heap, tcById_, line) ==
  IF IsSkippedLine(line) THEN heap
  ELSE LET cols == splitDatLine(line)
           tcId == Col(cols, 0)
       IN  IF ~Truthy(tcId) THEN heap
           ELSE IF ~MapHas(tcById_, tcId) THEN heap
           ELSE [heap EXCEPT ![MapGet(tcById_, tcId)].params =
                   <<[ name         |-> IF Col(cols, 2) = Undefined THEN <<>>
                                        ELSE Col(cols, 2),
                       kind         |-> Col(cols, 1),
                       bitLength    |-> Col(cols, 3),
                       bitOffset    |-> Col(cols, 4),
                       paramId      |-> Col(cols, 6),
                       enumSetId    |-> Undefined,
                       raw          |-> cols,
                       enumerations |-> Undefined ]>> \o @]

\* One iteration of the loop of parseCdfLines.  TcEntry objects live in a
\* heap (a sequence of records); tcById maps an id to the heap position of
\* its entry, so the push on target.params is seen through every reference.
parseCdfRow(heap, tcById_, line) ==
  IF IsSkippedLine(line) THEN heap
  ELSE LET cols == splitDatLine(line)
           tcId == Col(cols, 0)
       IN  IF ~Truthy(tcId) THEN heap
           ELSE IF ~MapHas(tcById_, tcId) THEN heap
           ELSE [heap EXCEPT ![MapGet(tcById_, tcId)].params =
                   Append(@, cdfParam(cols))]

RECURSIVE parseCdfLinesFrom(_, _, _, _)
parseCdfLinesFrom(lines, i, heap, tcById_) ==
  IF i >= Len(lines) THEN heap
  ELSE parseCdfLinesFrom(lines, i + 1,
                         parseCdfRow(heap, tcById_, lines[i + 1]), tcById_)

parseCdfLines(lines, heap, tcById_) == parseCdfLinesFrom(lines, 0, heap, tcById_)

\* One iteration of the first loop of parseCveLines: valuesByParamId, a Map
\* from valueId to the Set of its labels.
parseCveRow(valuesByParamId, line) ==
  IF IsSkippedLine(line) THEN valuesByParamId
  ELSE LET cols       == splitDatLine(line)
           valueId    == Col(cols, 1)
           valueType  == Col(cols, 2)
           valueRange == Col(cols, 3)
       IN  IF ~Truthy(valueId) THEN valuesByParamId
           ELSE LET withKey == IF MapHas(valuesByParamId, valueId)
                               THEN valuesByParamId
                               ELSE MapSet(valuesByParamId, valueId, {})
                IN  IF valueType = <<"E">> /\ Truthy(valueRange)
                    THEN MapSet(withKey, valueId,
                                MapGet(withKey, valueId) \cup {valueRange})
                    ELSE withKey

RECURSIVE parseCveValuesFrom(_, _, _)
parseCveValuesFrom(lines, i, valuesByParamId) ==
  IF i >= Len(lines) THEN valuesByParamId
  ELSE parseCveValuesFrom(lines, i + 1, parseCveRow(valuesByParamId, lines[i + 1]))

\* param.enumerations = Array.from(set).sort() for a param whose key is in
\* the Map; keyOf is "paramId" (parseCveLines) or "enumSetId" (parseTxpLines).
attachEnumerations(params, setsByKey, keyOf) ==
  [ j \in 1..Len(params) |->
      IF Truthy(params[j][keyOf]) /\ MapHas(setsByKey, params[j][keyOf])
      THEN [params[j] EXCEPT !.enumerations =
              SortedStrings(MapGet(setsByKey, params[j][keyOf]))]
      ELSE params[j] ]

\* The heap positions tcById.values() visits.
MapValues(m) == {m[i].v : i \in 1..Len(m)}

parseCveLines(lines, heap, tcById_) ==
  LET valuesByParamId == parseCveValuesFrom(lines, 0, <<>>)
  IN  [ r \in 1..Len(heap) |->
          IF r \in MapValues(tcById_)
          THEN [heap[r] EXCEPT !.params =
                  attachEnumerations(heap[r].params, valuesByParamId, "paramId")]
          ELSE heap[r] ]

\* One iteration of the loop of parseCvpLines: valuesByTcId.
parseCvpRow(valuesByTcId, line) ==
  IF IsSkippedLine(line) THEN valuesByTcId
  ELSE LET cols    == splitDatLine(line)
           tcId    == Col(cols, 0)
           valueId == Col(cols, 2)
       IN  IF ~Truthy(tcId) \/ ~Truthy(valueId) THEN valuesByTcId
           ELSE LET withKey == IF MapHas(valuesByTcId, tcId) THEN valuesByTcId
                               ELSE MapSet(valuesByTcId, tcId, {})
                IN  MapSet(withKey, tcId, MapGet(withKey, tcId) \cup {valueId})

RECURSIVE parseCvpValuesFrom(_, _, _)
parseCvpValuesFrom(lines, i, valuesByTcId) ==
  IF i >= Len(lines) THEN valuesByTcId
  ELSE parseCvpValuesFrom(lines, i + 1, parseCvpRow(valuesByTcId, lines[i + 1]))

\* parseCvpLines with an attach loop: the value ids of a command become the
\* enumerations of its parameters.
parseCvpLinesAttach(lines, heap, tcById_) ==
  LET valuesByTcId == parseCvpValuesFrom(lines, 0, <<>>)
  IN  [ r \in 1..Len(heap) |->
          IF r \in MapValues(tcById_) /\ MapHas(valuesByTcId, heap[r].id)
          THEN [heap[r] EXCEPT !.params =
                  [j \in 1..Len(@) |->
                     [@[j] EXCEPT !.enumerations =
                        SortedStrings(MapGet(valuesByTcId, heap[r].id))]]]
          ELSE heap[r] ]

\* parseCvpLines builds valuesByTcId and returns without using it: the heap
\* it was given is the heap it leaves.
parseCvpLines(lines, heap, tcById_) ==
  LET valuesByTcId == parseCvpValuesFrom(lines, 0, <<>>)
  IN  heap

\* One iteration of the first loop of parseTxpLines: enumsByEnumSetId.
parseTxpRow(enumsByEnumSetId, line) ==
  IF IsSkippedLine(line) THEN enumsByEnumSetId
  ELSE LET cols      == splitDatLine(line)
           enumSetId == Col(cols, 0)
           enumValue == Col(cols, Len(cols) - 1)
       IN  IF ~Truthy(enumSetId) \/ ~Truthy(enumValue) THEN enumsByEnumSetId
           ELSE LET withKey == IF MapHas(enumsByEnumSetId, enumSetId)
                               THEN enumsByEnumSetId
                               ELSE MapSet(enumsByEnumSetId, enumSetId, {})
                IN  MapSet(withKey, enumSetId,
                           MapGet(withKey, enumSetId) \cup {Trim(enumValue)})

RECURSIVE parseTxpEnumsFrom(_, _, _)
parseTxpEnumsFrom(lines, i, enumsByEnumSetId) ==
  IF i >= Len(lines) THEN enumsByEnumSetId
  ELSE parseTxpEnumsFrom(lines, i + 1, parseTxpRow(enumsByEnumSetId, lines[i + 1]))

parseTxpLines(lines, telemetryBySid_) ==
  LET enumsByEnumSetId == parseTxpEnumsFrom(lines, 0, <<>>)
  IN  [ t \in 1..Len(telemetryBySid_) |->
          [ k |-> telemetryBySid_[t].k,
            v |-> [telemetryBySid_[t].v EXCEPT !.params =
                     attachEnumerations(telemetryBySid_[t].v.params,
                                        enumsByEnumSetId, "enumSetId")] ] ]

(***************************************************************************)
(* buildMibIndexFromLines: the passes over the eight file lists, in the    *)
(* order of the code.                                                      *)
(***************************************************************************)

\* indexCcfEntry storing a copy of the entry under its name: the two Maps
\* hold different objects.
indexCcfEntryCopyByName(st, entry) ==
  LET ref == Len(st.heap) + 1
  IN  IF Truthy(entry.name)
      THEN [ heap   |-> Append(Append(st.heap, entry), entry),
             byId   |-> MapSet(st.byId, entry.id, ref),
             byName |-> MapSet(st.byName, entry.name, ref + 1) ]
      ELSE [ heap   |-> Append(st.heap, entry),
             byId   |-> MapSet(st.byId, entry.id, ref),
             byName |-> st.byName ]

\* indexCcfEntry keeping the first entry written under a name.
indexCcfEntryFirstName(st, entry) ==
  LET ref == Len(st.heap) + 1
  IN  [ heap   |-> Append(st.heap, entry),
        byId   |-> MapSet(st.byId, entry.id, ref),
        byName |-> IF Truthy(entry.name) /\ ~MapHas(st.byName, entry.name)
                   THEN MapSet(st.byName, entry.name, ref)
                   ELSE st.byName ]

\* The body of the inner loop of the CCF pass: tcById.set(entry.id, entry)
\* and, for a truthy name, tcByName.set(entry.name, entry).  The new entry
\* object takes the next heap position.
indexCcfEntry(st, entry) ==
  LET ref == Len(st.heap) + 1
  IN  [ heap   |-> Append(st.heap, entry),
        byId   |-> MapSet(st.byId, entry.id, ref),
        byName |-> IF Truthy(entry.name) THEN MapSet(st.byName, entry.name, ref)
                   ELSE st.byName ]

RECURSIVE indexCcfEntries(_, _, _)
indexCcfEntries(st, entries, j) ==
  IF j > Len(entries) THEN st
  ELSE indexCcfEntries(indexCcfEntry(st, entries[j]), entries, j + 1)

RECURSIVE ccfPass(_, _, _)
ccfPass(st, ccfFiles, f) ==
  IF f > Len(ccfFiles) THEN st
  ELSE ccfPass(indexCcfEntries(st, parseCcfLines(ccfFiles[f].lines, ccfFiles[f].path), 1),
               ccfFiles, f + 1)

RECURSIVE cdfPass(_, _, _, _)
cdfPass(heap, tcById_, cdfFiles, f) ==
  IF f > Len(cdfFiles) THEN heap
  ELSE cdfPass(parseCdfLines(cdfFiles[f].lines, heap, tcById_), tcById_, cdfFiles, f + 1)

RECURSIVE indexPidEntries(_, _, _)
indexPidEntries(telemetryBySid_, entries, j) ==
  IF j > Len(entries) THEN telemetryBySid_
  ELSE indexPidEntries(MapSet(telemetryBySid_, entries[j].sid, entries[j]),
                       entries, j + 1)

RECURSIVE pidPass(_, _, _)
pidPass(telemetryBySid_, pidFiles, f) ==
  IF f > Len(pidFiles) THEN telemetryBySid_
  ELSE pidPass(indexPidEntries(telemetryBySid_,
                 parsePidLines(pidFiles[f].lines, pidFiles[f].path), 1),
               pidFiles, f + 1)

\* The inner loop of the PCF pass: a paramId already in pcfByParamId keeps
\* the definition it has.
RECURSIVE mergePcfEntries(_, _, _)
mergePcfEntries(pcfByParamId_, entries, j) ==
  IF j > Len(entries) THEN pcfByParamId_
  ELSE mergePcfEntries(
         IF ~MapHas(pcfByParamId_, entries[j].k)
         THEN MapSet(pcfByParamId_, entries[j].k, entries[j].v)
         ELSE pcfByParamId_,
         entries, j + 1)

RECURSIVE pcfPass(_, _, _)
pcfPass(pcfByParamId_, pcfFiles, f) ==
  IF f > Len(pcfFiles) THEN pcfByParamId_
  ELSE pcfPass(mergePcfEntries(pcfByParamId_, parsePcfLines(pcfFiles[f].lines), 1),
               pcfFiles, f + 1)

RECURSIVE plfPass(_, _, _, _)
plfPass(telemetryBySid_, pcfByParamId_, plfFiles, f) ==
  IF f > Len(plfFiles) THEN telemetryBySid_
  ELSE plfPass(parsePlfLines(plfFiles[f].lines, telemetryBySid_, pcfByParamId_),
               pcfByParamId_, plfFiles, f + 1)

RECURSIVE cvePass(_, _, _, _)
cvePass(heap, tcById_, cveFiles, f) ==
  IF f > Len(cveFiles) THEN heap
  ELSE cvePass(parseCveLines(cveFiles[f].lines, heap, tcById_), tcById_, cveFiles, f + 1)

RECURSIVE cvpPass(_, _, _, _)
cvpPass(heap, tcById_, cvpFiles, f) ==
  IF f > Len(cvpFiles) THEN heap
  ELSE cvpPass(parseCvpLines(cvpFiles[f].lines, heap, tcById_), tcById_, cvpFiles, f + 1)

RECURSIVE txpPass(_, _, _)
txpPass(telemetryBySid_, txpFiles, f) ==
  IF f > Len(txpFiles) THEN telemetryBySid_
  ELSE txpPass(parseTxpLines(txpFiles[f].lines, telemetryBySid_), txpFiles, f + 1)

\* The MibIndex the builder returns, as a value: each Map with the entry
\* objects it refers to.
MibIndexOf(heap, tcById_, tcByName_, telemetryBySid_) ==
  [ tcById         |-> [i \in 1..Len(tcById_) |->
                          [k |-> tcById_[i].k, v |-> heap[tcById_[i].v]]],
    tcByName       |-> [i \in 1..Len(tcByName_) |->
                          [k |-> tcByName_[i].k, v |-> heap[tcByName_[i].v]]],
    telemetryBySid |-> telemetryBySid_ ]

\* One call of buildMibIndexFromLines as a function of its eight file lists.
buildMibIndexFromLines(f) ==
  LET ccf    == ccfPass([heap |-> <<>>, byId |-> <<>>, byName |-> <<>>], f.ccf, 1)
      cdf    == cdfPass(ccf.heap, ccf.byId, f.cdf, 1)
      pid    == pidPass(<<>>, f.pid, 1)
      pcf    == pcfPass(<<>>, f.pcf, 1)
      plf    == plfPass(pid, pcf, f.plf, 1)
      cve    == cvePass(cdf, ccf.byId, f.cve, 1)
      cvp    == cvpPass(cve, ccf.byId, f.cvp, 1)
      txp    == txpPass(plf, f.txp, 1)
  IN  MibIndexOf(cvp, ccf.byId, ccf.byName, txp)

(***************************************************************************)
(* Inputs.  A row is written as its columns and joined with tabs; lines    *)
(* that exercise trimming, blanks and comments are written out.  A file is *)
(* [path, lines], the lines as content.split(/\r?\n/) gives them.          *)
(***************************************************************************)
RECURSIVE Row(_)
Row(cols) ==
  IF Len(cols) = 0 THEN <<>>
  ELSE IF Len(cols) = 1 THEN cols[1]
  ELSE cols[1] \o <<TAB>> \o Row(Tail(cols))

E0 == <<>>

sA1 == <<"A", "1">>
sB2 == <<"B", "2">>
sb2 == <<"b", "2">>
sC3 == <<"C", "3">>
sZZ == <<"Z", "Z">>
sGO == <<"G", "O">>
sUP == <<"U", "P">>
sGoUp == <<"g", "o", " ", "u", "p">>
sP1 == <<"P", "1">>
sP2 == <<"P", "2">>
sP3 == <<"P", "3">>
sP4 == <<"P", "4">>
sP9 == <<"P", "9">>
sS1 == <<"S", "1">>
sS2 == <<"S", "2">>
sS9 == <<"S", "9">>
sT1 == <<"T", "1">>
sT2 == <<"T", "2">>
sT3 == <<"T", "3">>
sT9 == <<"T", "9">>
sMODE == <<"M", "O", "D", "E">>
sAUX == <<"A", "U", "X">>
sFiller == <<"f", "i", "l", "l", "e", "r">>
sVOLT == <<"V", "O", "L", "T">>
sAMP == <<"A", "M", "P">>
sWATT == <<"W", "A", "T", "T">>
sON == <<"O", "N">>
sOFF == <<"O", "F", "F">>
sAUTO == <<"A", "U", "T", "O">>

CcfFilePool ==
  << [ path  |-> "m1/ccf.dat",
       lines |-> << <<"#", " ", "c">>,
                    Row(<<sA1, sGO, sGoUp>>),
                    Row(<<sB2, sUP>>) >> ],
     [ path  |-> "m2/ccf.dat",
       lines |-> << E0,
                    Row(<<E0, sGO>>),
                    <<" ", "A", "1", " ", TAB, " ", "U", "P">>,
                    sC3 >> ],
     [ path  |-> "m3/CCF.DAT",
       lines |-> << <<" ", " ">>,
                    <<" ", "#", "B", "2", TAB, "G", "O">>,
                    Row(<<sb2, sGO, E0, E0, E0, <<"h">>, <<"8">>, <<"1">>, <<"7">>>>) >> ] >>

CdfFilePool ==
  << [ path  |-> "m1/cdf.dat",
       lines |-> << Row(<<sA1, <<"E">>, sMODE, <<"8">>, <<"0">>, E0, sP1>>),
                    Row(<<sB2, <<"A">>, sAUX>>),
                    Row(<<sA1, <<"F">>, sFiller, <<"4">>, <<"8">>>>) >> ],
     [ path  |-> "m2/cdf.dat",
       lines |-> << <<"#", "A", "1", TAB, "E", TAB, "X">>,
                    Row(<<sZZ, <<"E">>, sMODE, <<"8">>, <<"0">>, E0, sP9>>),
                    Row(<<sA1, <<"E">>>>),
                    Row(<<E0, <<"E">>, sAUX>>),
                    Row(<<sC3, <<"R">>, E0, <<"8">>, <<"0">>, E0, sP2>>),
                    E0 >> ] >>

PidFilePool ==
  << [ path  |-> "m1/pid.dat",
       lines |-> << Row(<<<<"3">>, <<"2">>, E0, E0, E0, sS1, sGoUp>>),
                    Row(<<<<"5">>, <<"1">>, E0, E0, E0, sS2>>) >> ],
     [ path  |-> "m2/pid.dat",
       lines |-> << <<"#", " ", "p">>,
                    Row(<<<<"3">>, <<"2">>>>),
                    Row(<<<<"9">>, <<"9">>, E0, E0, E0, sS1, sUP>>) >> ] >>

PcfFilePool ==
  << [ path  |-> "m1/pcf.dat",
       lines |-> << Row(<<sP1, sVOLT, E0, E0, E0, E0, E0, E0, E0, E0, E0, sT1>>),
                    Row(<<sP1, sAMP, E0, E0, E0, E0, E0, E0, E0, E0, E0, sT2>>),
                    Row(<<sP2, E0>>) >> ],
     [ path  |-> "m2/pcf.dat",
       lines |-> << Row(<<sP1, sWATT, E0, E0, E0, E0, E0, E0, E0, E0, E0, sT3>>),
                    Row(<<E0, sVOLT>>),
                    Row(<<sP3, sAUX, E0, E0, E0, E0, E0, E0, E0, E0, E0, sT1>>) >> ] >>

PlfFilePool ==
  << [ path  |-> "m1/plf.dat",
       lines |-> << Row(<<sP1, sS1>>),
                    Row(<<sP2, sS1>>),
                    Row(<<sP3, sS2>>),
                    Row(<<sP1, sS9>>) >> ],
     [ path  |-> "m2/plf.dat",
       lines |-> << Row(<<sP4, sS1>>),
                    Row(<<E0, sS1>>),
                    sP1,
                    <<" ", "#">> >> ] >>

CveFilePool ==
  << [ path  |-> "m1/cve.dat",
       lines |-> << Row(<<<<"x">>, sP1, <<"E">>, sON>>),
                    Row(<<<<"x">>, sP1, <<"E">>, sOFF>>),
                    Row(<<<<"x">>, sP1, <<"R">>, <<"5">>>>),
                    Row(<<<<"x">>, sP2, <<"R">>, <<"1">>>>),
                    Row(<<<<"x">>, E0, <<"E">>, sON>>) >> ],
     [ path  |-> "m2/cve.dat",
       lines |-> << Row(<<<<"x">>, sP1, <<"E">>, sAUTO>>),
                    <<"#">> >> ] >>

CvpFilePool ==
  << [ path  |-> "m1/cvp.dat",
       lines |-> << Row(<<sA1, <<"x">>, sP1>>), sA1 >> ],
     [ path  |-> "m2/cvp.dat",
       lines |-> << Row(<<sB2, <<"x">>, sON>>),
                    Row(<<sZZ, <<"x">>, sP2>>),
                    Row(<<sA1, <<"x">>, sOFF>>),
                    Row(<<sC3, <<"x">>, sP2>>) >> ] >>

TxpFilePool ==
  << [ path  |-> "m1/txp.dat",
       lines |-> << Row(<<sT1, <<"0">>, <<"0">>, sON>>),
                    Row(<<sT1, <<"1">>, <<"1">>, sOFF>>),
                    Row(<<sT1, <<"2">>, <<"2">>, <<" ", "O", "N", " ">>>>),
                    Row(<<sT9, <<"0">>, <<"0">>, sAUTO>>),
                    sT2 >> ],
     [ path  |-> "m2/txp.dat",
       lines |-> << Row(<<sT1, <<"3">>, <<"3">>, sAUTO>>),
                    Row(<<sT3, <<"0">>, <<"0">>, sON>>),
                    Row(<<sT3, <<"1">>, <<"1">>, E0>>),
                    Row(<<E0, <<"0">>, <<"0">>, sOFF>>),
                    <<" ", TAB, " ">> >> ] >>

\* The file lists of at most n files drawn from a pool: the extension builds a
\* list from distinct URIs, so a list never names a file twice.
MaxFiles == 2

FileLists(pool, n) ==
  LET idx == UNION { [1..k -> 1..Len(pool)] : k \in 0..n }
  IN  { [j \in 1..Len(s) |-> pool[s[j]]] :
          s \in { t \in idx : \A a, b \in 1..Len(t) : a # b => t[a] # t[b] } }

\* The eight file lists of one call.  Either the CCF, CDF and CVE lists vary,
\* or the CCF and CVP lists, or the four telemetry lists, the other tables
\* being the first file of their pool; or every table comes in its first
\* two files.
FirstOf(pool) == <<pool[1]>>

FirstTwoOf(pool) == <<pool[1], pool[2]>>

BuildInputs ==
  { [ ccf |-> c, cdf |-> d, cve |-> v, cvp |-> FirstOf(CvpFilePool),
      pid |-> FirstOf(PidFilePool), pcf |-> FirstOf(PcfFilePool),
      plf |-> FirstOf(PlfFilePool), txp |-> FirstOf(TxpFilePool) ] :
      c \in FileLists(CcfFilePool, MaxFiles), d \in FileLists(CdfFilePool, MaxFiles),
      v \in FileLists(CveFilePool, MaxFiles) }
  \cup
  { [ ccf |-> c, cdf |-> FirstOf(CdfFilePool), cve |-> FirstOf(CveFilePool),
      cvp |-> w,
      pid |-> FirstOf(PidFilePool), pcf |-> FirstOf(PcfFilePool),
      plf |-> FirstOf(PlfFilePool), txp |-> FirstOf(TxpFilePool) ] :
      c \in FileLists(CcfFilePool, MaxFiles), w \in FileLists(CvpFilePool, MaxFiles) }
  \cup
  { [ ccf |-> FirstOf(CcfFilePool), cdf |-> FirstOf(CdfFilePool),
      cve |-> FirstOf(CveFilePool), cvp |-> FirstOf(CvpFilePool),
      pid |-> i, pcf |-> c, plf |-> l, txp |-> t ] :
      i \in FileLists(PidFilePool, MaxFiles), c \in FileLists(PcfFilePool, MaxFiles),
      l \in FileLists(PlfFilePool, MaxFiles), t \in FileLists(TxpFilePool, MaxFiles) }
  \cup
  { [ ccf |-> FirstTwoOf(CcfFilePool), cdf |-> FirstTwoOf(CdfFilePool),
      cve |-> FirstTwoOf(CveFilePool), cvp |-> FirstTwoOf(CvpFilePool),
      pid |-> FirstTwoOf(PidFilePool), pcf |-> FirstTwoOf(PcfFilePool),
      plf |-> FirstTwoOf(PlfFilePool), txp |-> FirstTwoOf(TxpFilePool) ] }

(***************************************************************************)
(* The builder as a state machine: one call of buildMibIndexFromLines is   *)
(* BuildStart, the eight passes in the order of the code, and Return.      *)
(***************************************************************************)
VARIABLES
  files,           \* the eight file lists given to buildMibIndexFromLines
  pc,              \* the step the program is about to take
  tcHeap,          \* the TcEntry objects created so far, in creation order
  tcById,          \* Map id -> heap position
  tcByName,        \* Map name -> heap position
  telemetryBySid,  \* Map sid -> TelemetryEntry
  pcfByParamId,    \* Map paramId -> PcfEntry
  returned,        \* the MibIndex values returned by the calls made so far
  entries,         \* the TcEntry array given to buildEntrySearchIndex
  entryIndex,      \* the EntrySearchIndex array it returned
  query,           \* the query of the last rankEntries call
  limit,           \* its limit
  ranked,          \* the RankedEntry array it returned
  paramName,       \* the arguments of isRequiredParam
  paramKind,
  required,        \* its result
  tokenLine,       \* the argument of getTelecommandTokenFromLine
  token,           \* its result
  quickPick,       \* the reverse-search quick pick: its value and its items
  updates,         \* the updateItems calls started so far, in start order
  uniqueFiles      \* the .dat files findMibMatches reads, with their lines

buildVars == <<files, pc, tcHeap, tcById, tcByName, telemetryBySid, pcfByParamId, returned>>

searchVars == <<entries, entryIndex, query, limit, ranked>>

paramVars == <<paramName, paramKind, required>>

tokenVars == <<tokenLine, token>>

quickVars == <<quickPick, updates, uniqueFiles>>

vars == <<buildVars, searchVars, paramVars, tokenVars, quickVars>>

\* The variables of the layers a specification does not exercise.
BuildIdle ==
  /\ files = [ ccf |-> <<>>, cdf |-> <<>>, pid |-> <<>>, plf |-> <<>>,
               pcf |-> <<>>, cve |-> <<>>, cvp |-> <<>>, txp |-> <<>> ]
  /\ tcHeap = <<>>
  /\ tcById = <<>>
  /\ tcByName = <<>>
  /\ telemetryBySid = <<>>
  /\ pcfByParamId = <<>>
  /\ returned = <<>>

SearchIdle ==
  /\ entries = <<>>
  /\ entryIndex = <<>>
  /\ query = <<>>
  /\ limit = 0
  /\ ranked = <<>>

ParamIdle ==
  /\ paramName = <<>>
  /\ paramKind = Undefined
  /\ required = FALSE

TokenIdle ==
  /\ tokenLine = <<>>
  /\ token = Undefined

QuickIdle ==
  /\ quickPick = [value |-> <<>>, items |-> <<>>]
  /\ updates = <<>>
  /\ uniqueFiles = <<>>

\* How many times the index is built from the same input.
MaxBuilds == 2

\* A builder whose Maps outlive the call (hoisted to module scope): a call
\* starts from what the previous call left.
ReusedMaps ==
  [ heap |-> tcHeap, byId |-> tcById, byName |-> tcByName,
    bySid |-> telemetryBySid, pcf |-> pcfByParamId ]

\* The four new Map() a call starts from, and no TcEntry object yet.
NewMaps ==
  [ heap |-> <<>>, byId |-> <<>>, byName |-> <<>>, bySid |-> <<>>, pcf |-> <<>> ]

BuildInit ==
  /\ files \in BuildInputs
  /\ pc = "idle"
  /\ tcHeap = <<>>
  /\ tcById = <<>>
  /\ tcByName = <<>>
  /\ telemetryBySid = <<>>
  /\ pcfByParamId = <<>>
  /\ returned = <<>>
  /\ SearchIdle
  /\ ParamIdle
  /\ TokenIdle
  /\ QuickIdle

BuildStart ==
  /\ pc = "idle"
  /\ Len(returned) < MaxBuilds
  /\ pc' = "ccf"
  /\ tcHeap' = NewMaps.heap
  /\ tcById' = NewMaps.byId
  /\ tcByName' = NewMaps.byName
  /\ telemetryBySid' = NewMaps.bySid
  /\ pcfByParamId' = NewMaps.pcf
  /\ UNCHANGED <<files, returned>>
  /\ UNCHANGED <<searchVars, paramVars, tokenVars, quickVars>>

CcfPass ==
  /\ pc = "ccf"
  /\ LET st == ccfPass([heap |-> tcHeap, byId |-> tcById, byName |-> tcByName],
                       files.ccf, 1)
     IN  /\ tcHeap' = st.heap
         /\ tcById' = st.byId
         /\ tcByName' = st.byName
  /\ pc' = "cdf"
  /\ UNCHANGED <<files, telemetryBySid, pcfByParamId, returned>>
  /\ UNCHANGED <<searchVars, paramVars, tokenVars, quickVars>>

CdfPass ==
  /\ pc = "cdf"
  /\ tcHeap' = cdfPass(tcHeap, tcById, files.cdf, 1)
  /\ pc' = "pid"
  /\ UNCHANGED <<files, tcById, tcByName, telemetryBySid, pcfByParamId, returned>>
  /\ UNCHANGED <<searchVars, paramVars, tokenVars, quickVars>>

PidPass ==
  /\ pc = "pid"
  /\ telemetryBySid' = pidPass(telemetryBySid, files.pid, 1)
  /\ pc' = "pcf"
  /\ UNCHANGED <<files, tcHeap, tcById, tcByName, pcfByParamId, returned>>
  /\ UNCHANGED <<searchVars, paramVars, tokenVars, quickVars>>

\* The PCF and PLF passes in the opposite order: the PLF rows are read against
\* the definitions held before the PCF files are.
PcfPassAfterPlf ==
  /\ pc = "pcf"
  /\ telemetryBySid' = plfPass(telemetryBySid, pcfByParamId, files.plf, 1)
  /\ pcfByParamId' = pcfPass(pcfByParamId, files.pcf, 1)
  /\ pc' = "cve"
  /\ UNCHANGED <<files, tcHeap, tcById, tcByName, returned>>
  /\ UNCHANGED <<searchVars, paramVars, tokenVars, quickVars>>

PcfPass ==
  /\ pc = "pcf"
  /\ pcfByParamId' = pcfPass(pcfByParamId, files.pcf, 1)
  /\ pc' = "plf"
  /\ UNCHANGED <<files, tcHeap, tcById, tcByName, telemetryBySid, returned>>
  /\ UNCHANGED <<searchVars, paramVars, tokenVars, quickVars>>

PlfPass ==
  /\ pc = "plf"
  /\ telemetryBySid' = plfPass(telemetryBySid, pcfByParamId, files.plf, 1)
  /\ pc' = "cve"
  /\ UNCHANGED <<files, tcHeap, tcById, tcByName, pcfByParamId, returned>>
  /\ UNCHANGED <<searchVars, paramVars, tokenVars, quickVars>>

CvePass ==
  /\ pc = "cve"
  /\ tcHeap' = cvePass(tcHeap, tcById, files.cve, 1)
  /\ pc' = "cvp"
  /\ UNCHANGED <<files, tcById, tcByName, telemetryBySid, pcfByParamId, returned>>
  /\ UNCHANGED <<searchVars, paramVars, tokenVars, quickVars>>

CvpPass ==
  /\ pc = "cvp"
  /\ tcHeap' = cvpPass(tcHeap, tcById, files.cvp, 1)
  /\ pc' = "txp"
  /\ UNCHANGED <<files, tcById, tcByName, telemetryBySid, pcfByParamId, returned>>
  /\ UNCHANGED <<searchVars, paramVars, tokenVars, quickVars>>

TxpPass ==
  /\ pc = "txp"
  /\ telemetryBySid' = txpPass(telemetryBySid, files.txp, 1)
  /\ pc' = "return"
  /\ UNCHANGED <<files, tcHeap, tcById, tcByName, pcfByParamId, returned>>
  /\ UNCHANGED <<searchVars, paramVars, tokenVars, quickVars>>

Return ==
  /\ pc = "return"
  /\ returned' = Append(returned, MibIndexOf(tcHeap, tcById, tcByName, telemetryBySid))
  /\ pc' = "idle"
  /\ UNCHANGED <<files, tcHeap, tcById, tcByName, telemetryBySid, pcfByParamId>>
  /\ UNCHANGED <<searchVars, paramVars, tokenVars, quickVars>>

BuildNext ==
  \/ BuildStart
  \/ CcfPass
  \/ CdfPass
  \/ PidPass
  \/ PcfPass
  \/ PlfPass
  \/ CvePass
  \/ CvpPass
  \/ TxpPass
  \/ Return

Init == BuildInit

Next == BuildNext

Spec == Init /\ [][Next]_vars

(***************************************************************************)
(* What the claims speak of: the rows of a table, read off the input lines *)
(* without the parsers.                                                    *)
(***************************************************************************)

\* The rows of one file: the columns of every line that is not blank and not
\* a # comment, in line order.
RECURSIVE TableRows(_)
TableRows(lines) ==
  IF lines = <<>> THEN <<>>
  ELSE (IF IsSkippedLine(Head(lines)) THEN <<>> ELSE <<splitDatLine(Head(lines))>>)
       \o TableRows(Tail(lines))

\* The rows of a file list in file-then-row order.
RECURSIVE AllTableRows(_)
AllTableRows(fileList) ==
  IF fileList = <<>> THEN <<>>
  ELSE TableRows(Head(fileList).lines) \o AllTableRows(Tail(fileList))

\* The rows whose column k (0-based) is non-empty, and those where it is key.
RowsWithKey(rows, k) == LET Has(c) == Truthy(Col(c, k)) IN SelectSeq(rows, Has)

RowsKeyed(rows, k, key) == LET Is(c) == Col(c, k) = key IN SelectSeq(rows, Is)

SeqRange(q) == {q[i] : i \in 1..Len(q)}

\* The ids of the CCF rows with a non-empty first column (collectCcfIds of
\* the parser test, over every CCF file), and the sids of the PID rows.
CcfRowIds == LET r == RowsWithKey(AllTableRows(files.ccf), 0)
             IN  [i \in 1..Len(r) |-> r[i][1]]

PidRowSids == LET r == RowsWithKey(AllTableRows(files.pid), 5)
              IN  [i \in 1..Len(r) |-> r[i][6]]

Built == Len(returned) >= 1

\* C1 as claimed: the number of commands in tcById equals the number of CCF
\* rows that are non-blank, not comments and have a non-empty first column,
\* and every such row's id is a key of tcById.
C1_RowCount ==
  \A n \in 1..Len(returned) :
    /\ Len(returned[n].tcById) = Len(CcfRowIds)
    /\ \A id \in SeqRange(CcfRowIds) : MapHas(returned[n].tcById, id)

\* C1 amended: the number of commands in tcById equals the number of distinct
\* ids among those rows (the number of rows when no two of them share an id),
\* and every such row's id is a key of tcById.
C1_DistinctIdCount ==
  \A n \in 1..Len(returned) :
    /\ Len(returned[n].tcById) = Cardinality(SeqRange(CcfRowIds))
    /\ Cardinality(MapKeys(returned[n].tcById)) = Len(returned[n].tcById)
    /\ (Cardinality(SeqRange(CcfRowIds)) = Len(CcfRowIds)
          => Len(returned[n].tcById) = Len(CcfRowIds))
    /\ \A id \in SeqRange(CcfRowIds) : MapHas(returned[n].tcById, id)

\* C1 witness: an index was built from CCF files in which two rows share an
\* id and at least two different ids occur.
C1_Witness ==
  /\ Built
  /\ Len(CcfRowIds) > Cardinality(SeqRange(CcfRowIds))
  /\ Len(returned[1].tcById) >= 2

\* C2: the params of every command in tcById are, in file-then-row order,
\* the CDF rows whose first column is the command's id, one element per row.
C2_ParamsFollowCdfRows ==
  \A n \in 1..Len(returned) :
    \A i \in 1..Len(returned[n].tcById) :
      LET e == returned[n].tcById[i].v
      IN  [j \in 1..Len(e.params) |-> e.params[j].raw]
            = RowsKeyed(AllTableRows(files.cdf), 0, e.id)

\* C2 witness: a command whose parameters come from two CDF files.
C2_Witness ==
  /\ Built
  /\ Len(files.cdf) = 2
  /\ \E i \in 1..Len(returned[1].tcById) :
       LET e == returned[1].tcById[i].v
       IN  /\ Len(e.params) >= 3
           /\ RowsKeyed(TableRows(files.cdf[1].lines), 0, e.id) # <<>>
           /\ RowsKeyed(TableRows(files.cdf[2].lines), 0, e.id) # <<>>

\* Every ParamEntry of every command of every returned index.
ReturnedTcParams ==
  UNION { UNION { SeqRange(returned[n].tcById[i].v.params) :
                    i \in 1..Len(returned[n].tcById) } :
            n \in 1..Len(returned) }

\* C7 as claimed: every parameter of every command in the index has a
\* non-empty name or a non-empty paramId.
C7_NameOrParamId ==
  \A n \in 1..Len(returned) :
    \A i \in 1..Len(returned[n].tcById) :
      \A j \in 1..Len(returned[n].tcById[i].v.params) :
        LET p == returned[n].tcById[i].v.params[j]
        IN  Truthy(p.name) \/ Truthy(p.paramId)

\* Column k (0-based) of a row of the input, where the row has one.
HasColumn(row, k) == Len(row) > k

\* C7 amended: the parameters of every command are its CDF rows, one for
\* one and in order, none dropped; each has as name column 2 of its row (the
\* empty string when the row has no column 2) and as paramId column 6 of its
\* row (none when the row has no column 6).  The rows are read off the CDF
\* lines of the input.
C7_NameOrParamIdFromRow ==
  \A n \in 1..Len(returned) :
    \A i \in 1..Len(returned[n].tcById) :
      LET e    == returned[n].tcById[i].v
          rows == RowsKeyed(AllTableRows(files.cdf), 0, e.id)
      IN  /\ Len(e.params) = Len(rows)
          /\ \A j \in 1..Len(rows) :
               /\ e.params[j].name
                    = (IF HasColumn(rows[j], 2) THEN rows[j][3] ELSE <<>>)
               /\ e.params[j].paramId
                    = (IF HasColumn(rows[j], 6) THEN rows[j][7] ELSE Undefined)

\* C7 witness: an index holding a parameter with neither name nor paramId
\* from a row that stops before column 2, one with a paramId only, one with
\* a name only, and one with a name and a different paramId.
C7_Witness ==
  /\ Built
  /\ \E i \in 1..Len(returned[1].tcById) :
       LET e    == returned[1].tcById[i].v
           rows == RowsKeyed(AllTableRows(files.cdf), 0, e.id)
       IN  \E j \in 1..Len(rows) :
             /\ ~HasColumn(rows[j], 2)
             /\ j <= Len(e.params)
             /\ e.params[j].name = <<>>
             /\ e.params[j].paramId = Undefined
  /\ \E q \in ReturnedTcParams : ~Truthy(q.name) /\ Truthy(q.paramId)
  /\ \E q \in ReturnedTcParams : Truthy(q.name) /\ ~Truthy(q.paramId)
  /\ \E q \in ReturnedTcParams :
       Truthy(q.name) /\ Truthy(q.paramId) /\ q.name # q.paramId

\* C8: every build from the same input returns the same index (keys, order,
\* fields, params, enumerations), and a build starts from empty Maps: nothing
\* of the previous build is left.
C8_RebuildIdentical ==
  /\ \A m, n \in 1..Len(returned) : returned[m] = returned[n]
  /\ pc = "ccf" =>
       /\ tcHeap = <<>>
       /\ tcById = <<>>
       /\ tcByName = <<>>
       /\ telemetryBySid = <<>>
       /\ pcfByParamId = <<>>

\* C8 witness: two builds have returned, with commands that carry
\* enumerations, a name index and telemetry with parameters.
C8_Witness ==
  /\ Len(returned) = 2
  /\ \E p \in ReturnedTcParams : p.enumerations # Undefined /\ p.enumerations # <<>>
  /\ Len(returned[2].tcByName) >= 1
  /\ \E i \in 1..Len(returned[2].telemetryBySid) :
       returned[2].telemetryBySid[i].v.params # <<>>

AfterCcf == pc \in {"cdf", "pid", "pcf", "plf", "cve", "cvp", "txp", "return"}

AfterPid == pc \in {"pcf", "plf", "cve", "cvp", "txp", "return"}

AfterPcf == pc \in {"plf", "cve", "cvp", "txp", "return"}

\* C9: from the CCF pass on the keys of tcById are exactly the ids of the CCF
\* rows, from the PID pass on the keys of telemetryBySid are exactly the sids
\* of the PID rows, whatever the other tables hold; in the returned index a
\* command holds only CDF rows keyed by its id and a telemetry entry only
\* the PLF rows keyed by its sid, so a row that misses changes no params.
C9_ForeignKeyMisses ==
  /\ AfterCcf => MapKeys(tcById) = SeqRange(CcfRowIds)
  /\ AfterPid => MapKeys(telemetryBySid) = SeqRange(PidRowSids)
  /\ \A n \in 1..Len(returned) :
       /\ MapKeys(returned[n].tcById) = SeqRange(CcfRowIds)
       /\ MapKeys(returned[n].telemetryBySid) = SeqRange(PidRowSids)
       /\ \A i \in 1..Len(returned[n].tcById) :
            \A j \in 1..Len(returned[n].tcById[i].v.params) :
              Col(returned[n].tcById[i].v.params[j].raw, 0) = returned[n].tcById[i].k
       /\ \A i \in 1..Len(returned[n].telemetryBySid) :
            LET t == returned[n].telemetryBySid[i].v
            IN  [j \in 1..Len(t.params) |-> t.params[j].raw]
                  = RowsKeyed(RowsWithKey(AllTableRows(files.plf), 0), 1, t.sid)

\* C9 witness: an index built from a CDF row naming no CCF id and a PLF row
\* naming no PID sid.
C9_Witness ==
  /\ Built
  /\ returned[1].tcById # <<>>
  /\ returned[1].telemetryBySid # <<>>
  /\ \E c \in SeqRange(RowsWithKey(AllTableRows(files.cdf), 0)) :
       Col(c, 0) \notin SeqRange(CcfRowIds)
  /\ \E c \in SeqRange(RowsWithKey(RowsWithKey(AllTableRows(files.plf), 0), 1)) :
       Col(c, 1) \notin SeqRange(PidRowSids)

\* C10 as claimed: the definition the builder uses for a paramId, and so the
\* name and enumSetId a PLF row gets, is the one of the first PCF row with
\* that paramId in file-then-row order.
C10_FirstPcfRowWins ==
  /\ AfterPcf =>
       \A i \in 1..Len(pcfByParamId) :
         LET first == RowsKeyed(AllTableRows(files.pcf), 0, pcfByParamId[i].k)[1]
         IN  /\ pcfByParamId[i].v.name = Col(first, 1)
             /\ pcfByParamId[i].v.enumSetId = Col(first, 11)
  /\ \A n \in 1..Len(returned) :
       \A i \in 1..Len(returned[n].telemetryBySid) :
         \A j \in 1..Len(returned[n].telemetryBySid[i].v.params) :
           LET p   == returned[n].telemetryBySid[i].v.params[j]
               occ == RowsKeyed(AllTableRows(files.pcf), 0, p.paramId)
           IN  occ # <<>> =>
                 /\ p.enumSetId = Col(occ[1], 11)
                 /\ p.name = IF Truthy(Col(occ[1], 1)) THEN Col(occ[1], 1)
                             ELSE p.paramId

(***************************************************************************)
(* Rows with their place in the input: the file and the 1-based line.      *)
(***************************************************************************)
LinesAt(file) ==
  [i \in 1..Len(file.lines) |->
     [cols |-> splitDatLine(file.lines[i]), text |-> file.lines[i],
      path |-> file.path, line |-> i]]

RECURSIVE AllLinesAt(_)
AllLinesAt(fileList) ==
  IF fileList = <<>> THEN <<>>
  ELSE LinesAt(Head(fileList)) \o AllLinesAt(Tail(fileList))

\* The rows (not blank, not a comment) whose column k is non-empty, in
\* file-then-row order, each with its place.
RowsAtWithKey(fileList, k) ==
  LET Has(r) == ~IsSkippedLine(r.text) /\ Truthy(Col(r.cols, k))
  IN  SelectSeq(AllLinesAt(fileList), Has)

LastOf(q) == q[Len(q)]

CcfRowsAt == RowsAtWithKey(files.ccf, 0)

CcfRowsNamed(name) ==
  LET Is(r) == Col(r.cols, 1) = name IN SelectSeq(CcfRowsAt, Is)

CcfRowsWithId(id) ==
  LET Is(r) == Col(r.cols, 0) = id IN SelectSeq(CcfRowsAt, Is)

CcfRowNames ==
  {Col(CcfRowsAt[i].cols, 1) : i \in 1..Len(CcfRowsAt)} \ {<<>>, Undefined}

\* The entry e is the one parsed from the row r.
IsEntryOfCcfRow(e, r) ==
  /\ e.id = Col(r.cols, 0)
  /\ e.name = Col(r.cols, 1)
  /\ e.description = Col(r.cols, 2)
  /\ e.sourcePath = r.path
  /\ e.sourceLine = r.line

\* C11: tcByName has a key exactly for each non-empty name in column 1 of a
\* CCF row with a non-empty id, and maps a name to the entry of the last such
\* row with that name in file-then-row order; tcById maps an id to the entry
\* of the last CCF row with that id.
C11_LastWriterWins ==
  \A n \in 1..Len(returned) :
    /\ MapKeys(returned[n].tcByName) = CcfRowNames
    /\ Len(returned[n].tcByName) = Cardinality(CcfRowNames)
    /\ \A i \in 1..Len(returned[n].tcByName) :
         IsEntryOfCcfRow(returned[n].tcByName[i].v,
                         LastOf(CcfRowsNamed(returned[n].tcByName[i].k)))
    /\ \A i \in 1..Len(returned[n].tcById) :
         IsEntryOfCcfRow(returned[n].tcById[i].v,
                         LastOf(CcfRowsWithId(returned[n].tcById[i].k)))

\* C11 witness: an index built from CCF files in which two rows with
\* different ids share a name, two rows share an id, and a row has no name.
C11_Witness ==
  /\ Built
  /\ \E a, b \in 1..Len(CcfRowsAt) :
       /\ a < b
       /\ Truthy(Col(CcfRowsAt[a].cols, 1))
       /\ Col(CcfRowsAt[a].cols, 1) = Col(CcfRowsAt[b].cols, 1)
       /\ Col(CcfRowsAt[a].cols, 0) # Col(CcfRowsAt[b].cols, 0)
  /\ \E a, b \in 1..Len(CcfRowsAt) :
       a < b /\ Col(CcfRowsAt[a].cols, 0) = Col(CcfRowsAt[b].cols, 0)
  /\ \E a \in 1..Len(CcfRowsAt) : ~Truthy(Col(CcfRowsAt[a].cols, 1))
  /\ Len(returned[1].tcByName) >= 2

\* The eight file lists with another CVP list in place of the one given.
WithCvp(w) == [files EXCEPT !.cvp = w]

\* C14: the index a build has just returned is the index built from the
\* same files with any other CVP list, the empty one included (keys, entry
\* fields, params and enumerations), and the CVP pass leaves tcById,
\* tcByName and every entry as the CVE pass left them.
C14_CvpChangesNothing ==
  /\ (pc = "idle" /\ Built) =>
       \A w \in FileLists(CvpFilePool, MaxFiles) :
         buildMibIndexFromLines(WithCvp(w)) = LastOf(returned)
  /\ pc = "txp" =>
       LET without == buildMibIndexFromLines(WithCvp(<<>>))
           now     == MibIndexOf(tcHeap, tcById, tcByName, <<>>)
       IN  /\ now.tcById = without.tcById
           /\ now.tcByName = without.tcByName

\* C14 witness: an index was built with a CVP file that names a command of
\* the index whose parameters have a paramId and enumerations.
C14_Witness ==
  /\ Built
  /\ files.cvp # <<>>
  /\ \E i \in 1..Len(returned[1].tcById) :
       LET e == returned[1].tcById[i].v
       IN  /\ RowsKeyed(RowsWithKey(AllTableRows(files.cvp), 2), 0, e.id) # <<>>
           /\ \E j \in 1..Len(e.params) :
                Truthy(e.params[j].paramId) /\ e.params[j].enumerations # Undefined

\* The rows a pass is to attach, read off the input lines.
CdfRowsFor(id) == RowsKeyed(AllTableRows(files.cdf), 0, id)

PlfRowsFor(sid) == RowsKeyed(RowsWithKey(AllTableRows(files.plf), 0), 1, sid)

PcfRowParamIds ==
  LET r == RowsWithKey(AllTableRows(files.pcf), 0) IN {r[i][1] : i \in 1..Len(r)}

RawsOf(params) == [j \in 1..Len(params) |-> params[j].raw]

CommandParamsComplete ==
  \A i \in 1..Len(tcById) :
    RawsOf(tcHeap[tcById[i].v].params) = CdfRowsFor(tcById[i].k)

TelemetryParamsComplete ==
  \A i \in 1..Len(telemetryBySid) :
    RawsOf(telemetryBySid[i].v.params) = PlfRowsFor(telemetryBySid[i].k)

NoCommandParams == \A r \in 1..Len(tcHeap) : tcHeap[r].params = <<>>

NoTelemetryParams ==
  \A i \in 1..Len(telemetryBySid) : telemetryBySid[i].v.params = <<>>

NoCommandEnumerations ==
  \A r \in 1..Len(tcHeap) : \A j \in 1..Len(tcHeap[r].params) :
    tcHeap[r].params[j].enumerations = Undefined

NoTelemetryEnumerations ==
  \A i \in 1..Len(telemetryBySid) : \A j \in 1..Len(telemetryBySid[i].v.params) :
    telemetryBySid[i].v.params[j].enumerations = Undefined

\* The valueIds of the CVE rows and the keys of the TXP rows that carry a
\* label, over every file of the table.
CveRowValueIds ==
  LET r == RowsWithKey(AllTableRows(files.cve), 1) IN {r[i][2] : i \in 1..Len(r)}

TxpRowKeys ==
  LET r == RowsWithKey(AllTableRows(files.txp), 0)
  IN  {r[i][1] : i \in {k \in 1..Len(r) : Truthy(r[k][Len(r[k])])}}

\* What each point of a build has applied and has not yet applied.
C15_AppliedSoFar ==
  /\ pc = "cdf" => MapKeys(tcById) = SeqRange(CcfRowIds) /\ NoCommandParams
  /\ pc \in {"pid", "pcf", "plf", "cve"} =>
       CommandParamsComplete /\ NoCommandEnumerations
  /\ pc \in {"ccf", "cdf", "pid"} => telemetryBySid = <<>>
  /\ pc \in {"ccf", "cdf", "pid", "pcf"} => pcfByParamId = <<>>
  /\ pc \in {"pcf", "plf"} =>
       MapKeys(telemetryBySid) = SeqRange(PidRowSids) /\ NoTelemetryParams
  /\ pc = "plf" => MapKeys(pcfByParamId) = PcfRowParamIds
  /\ pc \in {"cve", "cvp", "txp"} =>
       TelemetryParamsComplete /\ NoTelemetryEnumerations
  /\ pc \in {"cvp", "txp", "return"} => CommandParamsComplete
  /\ pc = "return" =>
       /\ TelemetryParamsComplete
       /\ \A i \in 1..Len(tcById) : \A j \in 1..Len(tcHeap[tcById[i].v].params) :
            LET p == tcHeap[tcById[i].v].params[j]
            IN  (Truthy(p.paramId) /\ p.paramId \in CveRowValueIds)
                  <=> p.enumerations # Undefined
       /\ \A i \in 1..Len(telemetryBySid) :
            \A j \in 1..Len(telemetryBySid[i].v.params) :
              LET p == telemetryBySid[i].v.params[j]
              IN  /\ (Truthy(p.enumSetId) /\ p.enumSetId \in TxpRowKeys)
                        <=> p.enumerations # Undefined
                  /\ p.paramId \in PcfRowParamIds =>
                        /\ p.enumSetId = MapGet(pcfByParamId, p.paramId).enumSetId
                        /\ Truthy(MapGet(pcfByParamId, p.paramId).name)
                              => p.name = MapGet(pcfByParamId, p.paramId).name

\* The passes follow one another in the order of the code.
C15_NextPass ==
  pc' # pc =>
    <<pc, pc'>> \in { <<"idle", "ccf">>, <<"ccf", "cdf">>, <<"cdf", "pid">>,
                      <<"pid", "pcf">>, <<"pcf", "plf">>, <<"plf", "cve">>,
                      <<"cve", "cvp">>, <<"cvp", "txp">>, <<"txp", "return">>,
                      <<"return", "idle">> }

\* C15: a build applies every CCF file before any CDF row, every PID and
\* every PCF file before any PLF row, CVE and CVP only after all CDF files
\* and TXP only after all PLF files; so a CDF row attaches to its command
\* whichever CCF file defines the id, a PLF row takes name and enumSetId from
\* PCF whichever PCF file defines the paramId, and the CVE and TXP passes
\* reach every parameter the CDF and PLF passes appended.
C15_DependencyOrder == []C15_AppliedSoFar /\ [][C15_NextPass]_vars

\* C15 witness: a build about to return in which a command defined by the
\* second CCF file only has a parameter with enumerations, and a telemetry
\* parameter defined by the second PCF file only has its name and
\* enumerations.
C15_Witness ==
  /\ pc = "return"
  /\ Len(files.ccf) = 2
  /\ Len(files.pcf) = 2
  /\ \E i \in 1..Len(tcById) :
       /\ RowsKeyed(TableRows(files.ccf[1].lines), 0, tcById[i].k) = <<>>
       /\ \E j \in 1..Len(tcHeap[tcById[i].v].params) :
            tcHeap[tcById[i].v].params[j].enumerations # Undefined
  /\ \E i \in 1..Len(telemetryBySid) :
       \E j \in 1..Len(telemetryBySid[i].v.params) :
         LET p == telemetryBySid[i].v.params[j]
         IN  /\ RowsKeyed(TableRows(files.pcf[1].lines), 0, p.paramId) = <<>>
             /\ RowsKeyed(TableRows(files.pcf[2].lines), 0, p.paramId) # <<>>
             /\ p.name # p.paramId
             /\ p.enumerations # Undefined

\* The labels of the type-E rows with a given valueId among some CVE rows.
CveLabels(rows, valueId) ==
  LET r == RowsKeyed(RowsKeyed(RowsWithKey(rows, 3), 2, <<"E">>), 1, valueId)
  IN  {r[i][4] : i \in 1..Len(r)}

\* C16 as claimed: with several CVE files, the enumerations of a command
\* parameter with paramId p are the ascending, duplicate-free union of the
\* valueRange labels of all type-E rows with valueId p over all CVE files.
C16_CveFilesMerge ==
  \A n \in 1..Len(returned) :
    \A i \in 1..Len(returned[n].tcById) :
      \A j \in 1..Len(returned[n].tcById[i].v.params) :
        LET p == returned[n].tcById[i].v.params[j]
        IN  (Truthy(p.paramId) /\ p.paramId \in CveRowValueIds) =>
              p.enumerations
                = SortedStrings(CveLabels(AllTableRows(files.cve), p.paramId))

\* A CVE file list without the rows whose valueType (column 2) is not E;
\* blank lines and comments stay.
WithoutNonERows(fileList) ==
  LET Keep(l) == IsSkippedLine(l) \/ Col(splitDatLine(l), 2) = <<"E">>
  IN  [f \in 1..Len(fileList) |->
         [fileList[f] EXCEPT !.lines = SelectSeq(@, Keep)]]

\* C17 as claimed: CVE rows whose valueType is not E contribute nothing: the
\* index built equals the index built from the same input with all non-E
\* rows removed, for every command parameter and for whether its
\* enumerations field is present.
C17_NonERowsContributeNothing ==
  (pc = "idle" /\ Built) =>
    LastOf(returned)
      = buildMibIndexFromLines([files EXCEPT !.cve = WithoutNonERows(@)])

AfterPlf == pc \in {"cve", "cvp", "txp", "return"}

\* The definition the builder holds for a paramId is a PCF row with that
\* paramId.
PcfDefinitionsAreRows ==
  \A k \in 1..Len(pcfByParamId) :
    \E r \in SeqRange(RowsKeyed(AllTableRows(files.pcf), 0, pcfByParamId[k].k)) :
      /\ pcfByParamId[k].v.name = Col(r, 1)
      /\ pcfByParamId[k].v.enumSetId = Col(r, 11)

\* C18: after the PLF pass a telemetry entry holds, in row order, one
\* parameter for every PLF row with a non-empty paramId and its sid, with
\* that paramId, kind P, the enumSetId of the PCF definition of the paramId
\* (none without a definition) and the definition's name when there is a
\* definition with a non-empty name, the paramId otherwise.
C18_PlfRowsAppend ==
  AfterPlf =>
    /\ PcfDefinitionsAreRows
    /\ \A i \in 1..Len(telemetryBySid) :
         LET t    == telemetryBySid[i].v
             rows == PlfRowsFor(t.sid)
         IN  /\ Len(t.params) = Len(rows)
             /\ \A j \in 1..Len(t.params) :
                  LET p      == t.params[j]
                      hasDef == MapHas(pcfByParamId, rows[j][1])
                  IN  /\ p.raw = rows[j]
                      /\ p.paramId = rows[j][1]
                      /\ p.kind = <<"P">>
                      /\ p.enumSetId = IF hasDef
                                       THEN MapGet(pcfByParamId, p.paramId).enumSetId
                                       ELSE Undefined
                      /\ p.name = IF hasDef /\ Truthy(MapGet(pcfByParamId, p.paramId).name)
                                  THEN MapGet(pcfByParamId, p.paramId).name
                                  ELSE p.paramId

\* C18 witness: after the PLF pass one telemetry entry holds a parameter
\* named by its definition, one whose definition has no name and one
\* without a definition, from PLF rows of two files.
C18_Witness ==
  /\ AfterPlf
  /\ Len(files.plf) = 2
  /\ \E i \in 1..Len(telemetryBySid) :
       LET ps == telemetryBySid[i].v.params
       IN  /\ \E j \in 1..Len(ps) :
                /\ MapHas(pcfByParamId, ps[j].paramId)
                /\ ps[j].name # ps[j].paramId
                /\ Truthy(ps[j].enumSetId)
           /\ \E j \in 1..Len(ps) :
                /\ MapHas(pcfByParamId, ps[j].paramId)
                /\ ~Truthy(MapGet(pcfByParamId, ps[j].paramId).name)
                /\ ps[j].name = ps[j].paramId
           /\ \E j \in 1..Len(ps) :
                /\ ~MapHas(pcfByParamId, ps[j].paramId)
                /\ ps[j].name = ps[j].paramId
                /\ ps[j].enumSetId = Undefined

\* The last-column labels of the TXP rows with a given key among some rows.
TxpLabels(rows, key) ==
  LET r == RowsKeyed(rows, 0, key)
  IN  {r[i][Len(r[i])] : i \in {k \in 1..Len(r) : Truthy(r[k][Len(r[k])])}}

\* The commands of the index just returned are those of a build without TXP.
TxpLeavesCommands ==
  LET without == buildMibIndexFromLines([files EXCEPT !.txp = <<>>])
  IN  /\ LastOf(returned).tcById = without.tcById
      /\ LastOf(returned).tcByName = without.tcByName

\* A telemetry parameter whose enumSetId is the key of a labelled TXP row has
\* the sorted set of the labels of the rows with that key; any other keeps
\* no enumerations.
TxpLabelsAttached(rows) ==
  \A i \in 1..Len(LastOf(returned).telemetryBySid) :
    \A j \in 1..Len(LastOf(returned).telemetryBySid[i].v.params) :
      LET p == LastOf(returned).telemetryBySid[i].v.params[j]
      IN  IF Truthy(p.enumSetId) /\ TxpLabels(rows, p.enumSetId) # {}
          THEN p.enumerations = SortedStrings(TxpLabels(rows, p.enumSetId))
          ELSE p.enumerations = Undefined

\* C19 as claimed: TXP touches telemetry only: a telemetry parameter whose
\* enumSetId is column 0 of some TXP row gets as enumerations the ascending,
\* duplicate-free set of the last-column labels of the TXP rows with that
\* key; the other telemetry parameters and all command parameters, with the
\* enumerations CVE attached, are as they were before TXP.
C19_TxpTelemetryOnly ==
  (pc = "idle" /\ Built) =>
    /\ TxpLeavesCommands
    /\ TxpLabelsAttached(AllTableRows(files.txp))

\* Line number n (1-based) of the file at path among a file list, a line
\* that is a row of the table.
IsRowAt(fileList, path, n) ==
  \E f \in 1..Len(fileList) :
    /\ fileList[f].path = path
    /\ n \in 1..Len(fileList[f].lines)
    /\ ~IsSkippedLine(fileList[f].lines[n])

RowAt(fileList, path, n) ==
  LET f == CHOOSE g \in 1..Len(fileList) : fileList[g].path = path
  IN  splitDatLine(fileList[f].lines[n])

Ascending(q) == \A a, b \in 1..Len(q) : a < b => q[a].sourceLine < q[b].sourceLine

\* C20: the sourceLine of every TcEntry parseCcfLines produces and of every
\* TelemetryEntry parsePidLines produces is the 1-based number of its row
\* among the lines given, blank and comment lines counted, so that line of
\* the file at sourcePath is the row the entry holds; a parser returns its
\* entries in ascending sourceLine order.
C20_SourceLineIsLineNumber ==
  /\ AfterCcf =>
       /\ \A r \in 1..Len(tcHeap) :
            /\ IsRowAt(files.ccf, tcHeap[r].sourcePath, tcHeap[r].sourceLine)
            /\ LET row == RowAt(files.ccf, tcHeap[r].sourcePath, tcHeap[r].sourceLine)
               IN  /\ tcHeap[r].id = Col(row, 0)
                   /\ tcHeap[r].name = Col(row, 1)
                   /\ tcHeap[r].description = Col(row, 2)
                   /\ tcHeap[r].header = Col(row, 5)
                   /\ tcHeap[r].serviceType = Col(row, 6)
                   /\ tcHeap[r].subService = Col(row, 7)
                   /\ tcHeap[r].apid = Col(row, 8)
       /\ \A f \in 1..Len(files.ccf) :
            LET parsed == parseCcfLines(files.ccf[f].lines, files.ccf[f].path)
            IN  /\ Ascending(parsed)
                /\ {parsed[k].sourceLine : k \in 1..Len(parsed)}
                     = {n \in 1..Len(files.ccf[f].lines) :
                          /\ ~IsSkippedLine(files.ccf[f].lines[n])
                          /\ Truthy(Col(splitDatLine(files.ccf[f].lines[n]), 0))}
  /\ AfterPid =>
       /\ \A i \in 1..Len(telemetryBySid) :
            LET t == telemetryBySid[i].v
            IN  /\ IsRowAt(files.pid, t.sourcePath, t.sourceLine)
                /\ LET row == RowAt(files.pid, t.sourcePath, t.sourceLine)
                   IN  /\ t.sid = Col(row, 5)
                       /\ t.service = Col(row, 0)
                       /\ t.subService = Col(row, 1)
                       /\ t.description = Col(row, 6)
       /\ \A f \in 1..Len(files.pid) :
            LET parsed == parsePidLines(files.pid[f].lines, files.pid[f].path)
            IN  /\ Ascending(parsed)
                /\ {parsed[k].sourceLine : k \in 1..Len(parsed)}
                     = {n \in 1..Len(files.pid[f].lines) :
                          /\ ~IsSkippedLine(files.pid[f].lines[n])
                          /\ Truthy(Col(splitDatLine(files.pid[f].lines[n]), 5))}

\* C20 witness: the PID pass is done, and a command and a telemetry entry
\* each come from a row that follows a blank or comment line and a row
\* without a key, so that their sourceLine is beyond the number of entries
\* of their file.
C20_Witness ==
  /\ AfterPid
  /\ \E r \in 1..Len(tcHeap) :
       /\ tcHeap[r].sourceLine >= 3
       /\ \E f \in 1..Len(files.ccf) :
            /\ files.ccf[f].path = tcHeap[r].sourcePath
            /\ IsSkippedLine(files.ccf[f].lines[1])
            /\ Len(parseCcfLines(files.ccf[f].lines, files.ccf[f].path))
                 < tcHeap[r].sourceLine
  /\ \E i \in 1..Len(telemetryBySid) :
       /\ telemetryBySid[i].v.sourceLine >= 3
       /\ \E f \in 1..Len(files.pid) :
            /\ files.pid[f].path = telemetryBySid[i].v.sourcePath
            /\ IsSkippedLine(files.pid[f].lines[1])
            /\ Len(parsePidLines(files.pid[f].lines, files.pid[f].path))
                 < telemetryBySid[i].v.sourceLine

\* The mandatory key columns of each table, as the parsers test them.
KeyColumns ==
  [ ccf |-> {0}, cdf |-> {0}, pid |-> {5}, plf |-> {0, 1}, pcf |-> {0},
    cve |-> {1}, txp |-> {0} ]

KeyedTables == {"ccf", "cdf", "pid", "plf", "pcf", "cve", "txp"}

\* A line a parser is to pass over: empty, white space only, a # comment, or
\* a row with an empty or missing key column.
IsBlankOrComment(l) ==
  l = <<>> \/ (\A i \in 1..Len(l) : IsWhiteSpace(l[i])) \/ Trim(l)[1] = "#"

LacksKey(l, keys) ==
  ~IsBlankOrComment(l) /\ \E k \in keys : ~Truthy(Col(splitDatLine(l), k))

\* The eight file lists without those lines.
WithoutPassedOverLines ==
  [ t \in DOMAIN files |->
      IF t \in KeyedTables
      THEN LET Keep(l) == ~IsBlankOrComment(l) /\ ~LacksKey(l, KeyColumns[t])
           IN  [f \in 1..Len(files[t]) |->
                  [files[t][f] EXCEPT !.lines = SelectSeq(@, Keep)]]
      ELSE files[t] ]

\* An index without the line numbers of its entries, which removing a line
\* shifts.
WithoutSourceLines(ix) ==
  [ tcById         |-> [i \in 1..Len(ix.tcById) |->
                          [ix.tcById[i] EXCEPT !.v.sourceLine = 0]],
    tcByName       |-> [i \in 1..Len(ix.tcByName) |->
                          [ix.tcByName[i] EXCEPT !.v.sourceLine = 0]],
    telemetryBySid |-> [i \in 1..Len(ix.telemetryBySid) |->
                          [ix.telemetryBySid[i] EXCEPT !.v.sourceLine = 0]] ]

\* C21: in every table parser a line that is empty, white space only or a
\* # comment, and a row whose key column is empty or missing, creates no
\* record, appends no parameter and attaches no enumeration, and the build
\* goes on with the next line: a build always returns, and what it returns
\* is, line numbers aside, the index built without those lines.
C21_PassedOverLines ==
  /\ (pc = "idle" /\ Built) =>
       WithoutSourceLines(LastOf(returned))
         = WithoutSourceLines(buildMibIndexFromLines(WithoutPassedOverLines))
  /\ pc = "return" =>
       /\ MapKeys(tcById) \cup MapKeys(telemetryBySid) \cup MapKeys(pcfByParamId)
            \subseteq (Seq(Characters) \ {<<>>})
       /\ Undefined \notin
            MapKeys(tcById) \cup MapKeys(telemetryBySid) \cup MapKeys(pcfByParamId)

\* C21 witness: an index with commands and telemetry was returned from files
\* that hold an empty line, a white space line, a comment, and in each of
\* the seven keyed tables a row without its key.
C21_Witness ==
  /\ pc = "idle"
  /\ Built
  /\ LastOf(returned).tcById # <<>>
  /\ LastOf(returned).telemetryBySid # <<>>
  /\ \A t \in KeyedTables :
       \E f \in 1..Len(files[t]) : \E n \in 1..Len(files[t][f].lines) :
         LacksKey(files[t][f].lines[n], KeyColumns[t])
  /\ \E t \in KeyedTables : \E f \in 1..Len(files[t]) : <<>> \in SeqRange(files[t][f].lines)
  /\ \E t \in KeyedTables : \E f \in 1..Len(files[t]) :
       \E n \in 1..Len(files[t][f].lines) :
         /\ files[t][f].lines[n] # <<>>
         /\ \A i \in 1..Len(files[t][f].lines[n]) : IsWhiteSpace(files[t][f].lines[n][i])
  /\ \E t \in KeyedTables : \E f \in 1..Len(files[t]) :
       \E n \in 1..Len(files[t][f].lines) :
         ~(\A i \in 1..Len(files[t][f].lines[n]) : IsWhiteSpace(files[t][f].lines[n][i]))
           /\ Trim(files[t][f].lines[n])[1] = "#"

\* The entry object at heap position r comes from the last CCF row with its
\* id: no later row has replaced it in tcById.
IsLastWithItsId(r) ==
  LET last == LastOf(CcfRowsWithId(tcHeap[r].id))
  IN  tcHeap[r].sourcePath = last.path /\ tcHeap[r].sourceLine = last.line

\* C23 as claimed: in the index a build returns, the entry under every name
\* n of tcByName has name n and is the very object tcById holds under the
\* entry's id, so a lookup by name gives the params and enumerations a
\* lookup by id gives.
C23_MapsAgree ==
  pc = "return" =>
    \A i \in 1..Len(tcByName) :
      LET e == tcHeap[tcByName[i].v]
      IN  /\ e.name = tcByName[i].k
          /\ MapHas(tcById, e.id)
          /\ tcByName[i].v = MapGet(tcById, e.id)
          /\ e.params = tcHeap[MapGet(tcById, e.id)].params

\* C23 amended: the entry under a name n of tcByName has name n and an id
\* that is a key of tcById; it is the very object tcById holds under that id
\* when no later CCF row has the same id; when a later row with that id and
\* another name (or none) replaced it in tcById, tcByName still holds the
\* replaced object, which has no params.
C23_MapsAgreeUnlessReplaced ==
  pc = "return" =>
    \A i \in 1..Len(tcByName) :
      LET e   == tcHeap[tcByName[i].v]
          cur == tcHeap[MapGet(tcById, e.id)]
      IN  /\ e.name = tcByName[i].k
          /\ MapHas(tcById, e.id)
          /\ IF IsLastWithItsId(tcByName[i].v)
             THEN /\ tcByName[i].v = MapGet(tcById, e.id)
                  /\ e.params = cur.params
             ELSE /\ tcByName[i].v # MapGet(tcById, e.id)
                  /\ cur.name # e.name
                  /\ e.params = <<>>

\* C23 witness: a build about to return whose tcByName holds an entry that
\* tcById also holds, with params and enumerations, and an entry that a later
\* row with the same id replaced in tcById, where the entry tcById holds has
\* params.
C23_Witness ==
  /\ pc = "return"
  /\ \E i \in 1..Len(tcByName) :
       /\ tcByName[i].v = MapGet(tcById, tcHeap[tcByName[i].v].id)
       /\ \E j \in 1..Len(tcHeap[tcByName[i].v].params) :
            tcHeap[tcByName[i].v].params[j].enumerations # Undefined
  /\ \E i \in 1..Len(tcByName) :
       /\ ~IsLastWithItsId(tcByName[i].v)
       /\ tcHeap[MapGet(tcById, tcHeap[tcByName[i].v].id)].params # <<>>

(***************************************************************************)
(* Search layer (src/src/search.ts).                                       *)
(***************************************************************************)

\* entry.name ?? "": undefined (or null) becomes the empty string.
OrEmpty(v) == IF v = Undefined THEN <<>> ELSE v

\* searchIndexItem keeping the name as it is written.
searchIndexItemNameAsWritten(entry) ==
  [ entry           |-> entry,
    idLower         |-> ToLowerCase(entry.id),
    nameLower       |-> OrEmpty(entry.name),
    descLower       |-> ToLowerCase(OrEmpty(entry.description)),
    paramNamesLower |-> [j \in 1..Len(entry.params) |->
                           ToLowerCase(entry.params[j].name)] ]

\* The EntrySearchIndex item buildEntrySearchIndex pushes for one entry.
searchIndexItem(entry) ==
  [ entry           |-> entry,
    idLower         |-> ToLowerCase(entry.id),
    nameLower       |-> ToLowerCase(OrEmpty(entry.name)),
    descLower       |-> ToLowerCase(OrEmpty(entry.description)),
    paramNamesLower |-> [j \in 1..Len(entry.params) |->
                           ToLowerCase(entry.params[j].name)] ]

buildEntrySearchIndex(entries_) ==
  [i \in 1..Len(entries_) |-> searchIndexItem(entries_[i])]

\* scoreEntryMatch giving the top score only to a query that is the whole id
\* or the whole name.
scoreEntryMatchWholeName(item, queryLower) ==
  IF ~Truthy(queryLower) THEN 0
  ELSE IF item.idLower = queryLower \/ item.nameLower = queryLower
  THEN 3
  ELSE IF \E j \in 1..Len(item.paramNamesLower) :
            Includes(item.paramNamesLower[j], queryLower)
  THEN 2
  ELSE IF Includes(item.descLower, queryLower) THEN 1
  ELSE 0

\* scoreEntryMatch testing the description before the parameter names.
scoreEntryMatchDescFirst(item, queryLower) ==
  IF ~Truthy(queryLower) THEN 0
  ELSE IF Includes(item.idLower, queryLower) \/ Includes(item.nameLower, queryLower)
  THEN 3
  ELSE IF Includes(item.descLower, queryLower) THEN 1
  ELSE IF \E j \in 1..Len(item.paramNamesLower) :
            Includes(item.paramNamesLower[j], queryLower)
  THEN 2
  ELSE 0

scoreEntryMatch(item, queryLower) ==
  IF ~Truthy(queryLower) THEN 0
  ELSE IF Includes(item.idLower, queryLower) \/ Includes(item.nameLower, queryLower)
  THEN 3
  ELSE IF \E j \in 1..Len(item.paramNamesLower) :
            Includes(item.paramNamesLower[j], queryLower)
  THEN 2
  ELSE IF Includes(item.descLower, queryLower) THEN 1
  ELSE 0

\* String.prototype.localeCompare under the root collation (ICU), on ASCII.
\* The primary order: white space, punctuation, symbols, currency, digits,
\* letters without regard to case.  Strings with equal primary keys are
\* ordered by case at the first difference, lower case first.
CollationOrder ==
  << TAB, "\n", "\f", "\r", " ", "_", "-", ",", ";", ":", "!", "?", ".", "'",
     "\"", "(", ")", "[", "]", "{", "}", "@", "*", "/", "\\", "&", "#", "%",
     "grave", "^", "+", "<", "=", ">", "|", "~", "$", "0", "1", "2", "3", "4",
     "5", "6", "7", "8", "9", "a", "b", "c", "d", "e", "f", "g", "h", "i", "j",
     "k", "l", "m", "n", "o", "p", "q", "r", "s", "t", "u", "v", "w", "x", "y",
     "z" >>

PrimaryWeightTable ==
  [c \in Characters |->
     CHOOSE i \in 1..Len(CollationOrder) : CollationOrder[i] = LowerOf(c)]

PrimaryWeight(c) == PrimaryWeightTable[c]

RECURSIVE PrimaryCompare(_, _)
PrimaryCompare(a, b) ==
  IF a = <<>> /\ b = <<>> THEN 0
  ELSE IF a = <<>> THEN -1
  ELSE IF b = <<>> THEN 1
  ELSE IF PrimaryWeight(Head(a)) < PrimaryWeight(Head(b)) THEN -1
  ELSE IF PrimaryWeight(Head(a)) > PrimaryWeight(Head(b)) THEN 1
  ELSE PrimaryCompare(Tail(a), Tail(b))

RECURSIVE CaseCompare(_, _)
CaseCompare(a, b) ==
  IF a = <<>> \/ b = <<>> THEN 0
  ELSE IF Head(a) = Head(b) THEN CaseCompare(Tail(a), Tail(b))
  ELSE IF Head(a) = LowerChar(Head(a)) THEN -1
  ELSE 1

localeCompare(a, b) ==
  LET primary == PrimaryCompare(a, b)
  IN  IF primary # 0 THEN primary ELSE CaseCompare(a, b)

\* The comparator of rankEntries: b.score - a.score || a.id.localeCompare(b.id).
rankCompare(a, b) ==
  IF b.score - a.score # 0 THEN b.score - a.score
  ELSE localeCompare(a.entry.id, b.entry.id)

\* Array.prototype.sort with rankCompare: a stable sort, by insertion of each
\* element after the elements that do not compare greater than it.
insertRanked(sorted, x) ==
  LET after == {k \in 1..Len(sorted) : rankCompare(sorted[k], x) > 0}
      pos   == IF after = {} THEN Len(sorted) + 1
               ELSE CHOOSE k \in after : \A m \in after : k <= m
  IN  SubSeq(sorted, 1, pos - 1) \o <<x>> \o SubSeq(sorted, pos, Len(sorted))

RECURSIVE sortRanked(_)
sortRanked(items) ==
  IF items = <<>> THEN <<>>
  ELSE insertRanked(sortRanked(SubSeq(items, 1, Len(items) - 1)), items[Len(items)])

\* Array.prototype.slice(0, end): a negative end counts from the end.
Slice0(items, end) ==
  LET n    == Len(items)
      stop == IF end < 0 THEN (IF n + end < 0 THEN 0 ELSE n + end)
              ELSE (IF end > n THEN n ELSE end)
  IN  SubSeq(items, 1, stop)

\* The map and filter steps of rankEntries.
scoreAll(entryIndex_, queryLower) ==
  [i \in 1..Len(entryIndex_) |->
     [entry |-> entryIndex_[i].entry,
      score |-> scoreEntryMatch(entryIndex_[i], queryLower)]]

\* keepMatches without "|| queryLower.length === 0".
keepMatchesPositiveOnly(rankedItems, queryLower) ==
  LET Keep(r) == r.score > 0 IN SelectSeq(rankedItems, Keep)

keepMatches(rankedItems, queryLower) ==
  LET Keep(r) == r.score > 0 \/ Len(queryLower) = 0
  IN  SelectSeq(rankedItems, Keep)

\* rankEntries truncating before it sorts.
rankEntriesSliceFirst(entryIndex_, query_, limit_) ==
  LET queryLower == ToLowerCase(query_)
  IN  sortRanked(Slice0(keepMatches(scoreAll(entryIndex_, queryLower), queryLower),
                        limit_))

rankEntries(entryIndex_, query_, limit_) ==
  LET queryLower == ToLowerCase(query_)
  IN  Slice0(sortRanked(keepMatches(scoreAll(entryIndex_, queryLower), queryLower)),
             limit_)

\* isRequiredParam comparing the name with "filler" as written.
isRequiredParamCaseSensitive(paramName_, kind) ==
  IF ~Truthy(paramName_) \/ paramName_ = <<"f", "i", "l", "l", "e", "r">> THEN FALSE
  ELSE IF ~Truthy(kind) THEN TRUE
  ELSE IF ToUpperCase(kind) = <<"A">> THEN FALSE
  ELSE TRUE

isRequiredParam(paramName_, kind) ==
  IF ~Truthy(paramName_) \/ ToLowerCase(paramName_) = <<"f", "i", "l", "l", "e", "r">>
  THEN FALSE
  ELSE IF ~Truthy(kind) THEN TRUE
  ELSE IF ToUpperCase(kind) = <<"A">> THEN FALSE
  ELSE TRUE

\* String.prototype.split on /\s+/: the pieces between maximal runs of white
\* space; a run at either end leaves an empty piece there.
RECURSIVE SplitWhiteSpace(_)
SplitWhiteSpace(s) ==
  IF \A i \in 1..Len(s) : ~IsWhiteSpace(s[i]) THEN <<s>>
  ELSE LET k == CHOOSE i \in 1..Len(s) :
                  IsWhiteSpace(s[i]) /\ \A j \in 1..(i - 1) : ~IsWhiteSpace(s[j])
       IN  <<SubSeq(s, 1, k - 1)>>
             \o SplitWhiteSpace(TrimStart(SubSeq(s, k + 1, Len(s))))

\* getTelecommandTokenFromLine without the trim.
getTelecommandTokenFromLineNoTrim(line) ==
  IF ~Truthy(line) THEN Undefined
  ELSE SplitWhiteSpace(line)[1]

getTelecommandTokenFromLine(line) ==
  LET trimmed == Trim(line)
  IN  IF ~Truthy(trimmed) THEN Undefined
      ELSE SplitWhiteSpace(trimmed)[1]

(***************************************************************************)
(* The search layer and the parameter classifier as state machines.        *)
(***************************************************************************)

\* A TcEntry as the search test's makeEntry builds it, with parameters that
\* have a name only.
MakeEntry(id, name, description, paramNames) ==
  [ id          |-> id,
    name        |-> name,
    description |-> description,
    header      |-> Undefined,
    serviceType |-> Undefined,
    subService  |-> Undefined,
    apid        |-> Undefined,
    sourcePath  |-> "/tmp/ccf.dat",
    sourceLine  |-> 1,
    params      |-> [j \in 1..Len(paramNames) |->
                       [ name         |-> paramNames[j],
                         kind         |-> Undefined,
                         bitLength    |-> Undefined,
                         bitOffset    |-> Undefined,
                         paramId      |-> Undefined,
                         enumSetId    |-> Undefined,
                         raw          |-> <<>>,
                         enumerations |-> Undefined ]] ]

SearchEntryPool ==
  << MakeEntry(sB2, sGO, sGoUp, <<sMODE>>),
     MakeEntry(<<"b", "1">>, sUP, Undefined, <<sAUX, <<"G", "o", "a", "l">>>>),
     MakeEntry(sA1, Undefined, <<"M", "o", "d", "e", " ", "g", "o">>,
               <<<<"m", "o", "d", "e">>>>),
     MakeEntry(<<"a", "1">>, <<"U", "p">>, <<"x">>, <<sGO>>) >>

QueryPool ==
  { <<>>, <<"g", "o">>, <<"G", "o">>, sMODE, <<"u", "p">>, <<"b">>, <<"1">>,
    <<"z", "z">>, <<"o", " ", "u">> }

\* At most MaxEntries entries are indexed, and limit runs from 0 to MaxLimit.
MaxEntries == 3

MaxLimit == 4

\* The arrays of distinct pool entries, in any order.
SearchInputs ==
  LET idx == UNION { [1..k -> 1..Len(SearchEntryPool)] : k \in 0..MaxEntries }
  IN  { [j \in 1..Len(t) |-> SearchEntryPool[t[j]]] :
          t \in { u \in idx : \A a, b \in 1..Len(u) : a # b => u[a] # u[b] } }

SearchInit ==
  /\ pc = "unindexed"
  /\ entries \in SearchInputs
  /\ entryIndex = <<>>
  /\ query = <<>>
  /\ limit = 0
  /\ ranked = <<>>
  /\ BuildIdle
  /\ ParamIdle
  /\ TokenIdle
  /\ QuickIdle

BuildEntrySearchIndex ==
  /\ pc = "unindexed"
  /\ entryIndex' = buildEntrySearchIndex(entries)
  /\ pc' = "indexed"
  /\ UNCHANGED <<entries, query, limit, ranked>>
  /\ UNCHANGED <<files, tcHeap, tcById, tcByName, telemetryBySid, pcfByParamId, returned>>
  /\ UNCHANGED <<paramVars, tokenVars, quickVars>>

\* rankEntries sorting the array it was given instead of a copy: the index
\* is left in the order of the last ranking.
RankEntriesSortingIndex ==
  /\ pc \in {"indexed", "ranked"}
  /\ \E q \in QueryPool, l \in 0..MaxLimit :
       LET sorted == sortRanked(scoreAll(entryIndex, ToLowerCase(q)))
       IN  /\ query' = q
           /\ limit' = l
           /\ entryIndex' = [i \in 1..Len(sorted) |-> searchIndexItem(sorted[i].entry)]
           /\ ranked' = Slice0(keepMatches(sorted, ToLowerCase(q)), l)
  /\ pc' = "ranked"
  /\ UNCHANGED entries
  /\ UNCHANGED <<files, tcHeap, tcById, tcByName, telemetryBySid, pcfByParamId, returned>>
  /\ UNCHANGED <<paramVars, tokenVars, quickVars>>

RankEntries ==
  /\ pc \in {"indexed", "ranked"}
  /\ \E q \in QueryPool, l \in 0..MaxLimit :
       /\ query' = q
       /\ limit' = l
       /\ ranked' = rankEntries(entryIndex, q, l)
  /\ pc' = "ranked"
  /\ UNCHANGED <<entries, entryIndex>>
  /\ UNCHANGED <<files, tcHeap, tcById, tcByName, telemetryBySid, pcfByParamId, returned>>
  /\ UNCHANGED <<paramVars, tokenVars, quickVars>>

SearchNext ==
  \/ BuildEntrySearchIndex
  \/ RankEntries

SearchSpec == SearchInit /\ [][SearchNext]_vars

ParamNamePool ==
  { <<>>, sFiller, <<"F", "i", "l", "l", "e", "r">>, <<"F", "I", "L", "L", "E", "R">>,
    <<"f", "i", "l", "l", "e">>, <<"f", "i", "l", "l", "e", "r", "s">>,
    <<" ", "f", "i", "l", "l", "e", "r">>, sMODE, <<"A">>, <<"a">> }

ParamKindPool ==
  { Undefined, <<>>, <<"A">>, <<"a">>, <<"E">>, <<"F">>, <<"R">>, <<"P">>,
    <<"A", "A">>, <<" ", "A">> }

ParamInit ==
  /\ pc = "unclassified"
  /\ paramName \in ParamNamePool
  /\ paramKind \in ParamKindPool
  /\ required = FALSE
  /\ BuildIdle
  /\ SearchIdle
  /\ TokenIdle
  /\ QuickIdle

IsRequiredParam ==
  /\ pc = "unclassified"
  /\ required' = isRequiredParam(paramName, paramKind)
  /\ pc' = "classified"
  /\ UNCHANGED <<paramName, paramKind>>
  /\ UNCHANGED <<files, tcHeap, tcById, tcByName, telemetryBySid, pcfByParamId, returned>>
  /\ UNCHANGED <<searchVars, tokenVars, quickVars>>

ParamNext == IsRequiredParam

ParamSpec == ParamInit /\ [][ParamNext]_vars

\* The lines given to getTelecommandTokenFromLine: every string of at most
\* MaxLineLen characters over letters, "=", space, tab and line feed.
MaxLineLen == 4

LineAlphabet == {"T", "c", "=", " ", TAB, "\n"}

TokenLines == UNION { [1..k -> LineAlphabet] : k \in 0..MaxLineLen }

TokenInit ==
  /\ pc = "untokenized"
  /\ tokenLine \in TokenLines
  /\ token = Undefined
  /\ BuildIdle
  /\ SearchIdle
  /\ ParamIdle
  /\ QuickIdle

GetTelecommandTokenFromLine ==
  /\ pc = "untokenized"
  /\ token' = getTelecommandTokenFromLine(tokenLine)
  /\ pc' = "tokenized"
  /\ UNCHANGED tokenLine
  /\ UNCHANGED <<files, tcHeap, tcById, tcByName, telemetryBySid, pcfByParamId, returned>>
  /\ UNCHANGED <<searchVars, paramVars, quickVars>>

TokenNext == GetTelecommandTokenFromLine

TokenSpec == TokenInit /\ [][TokenNext]_vars

(***************************************************************************)
(* The reverse-search quick pick (src/src/extension.ts, runReverseSearch). *)
(* A Uri is the record of its fsPath and of the path asRelativePath gives  *)
(* for it.  A template literal with a source path in it is the sequence of *)
(* its pieces.                                                             *)
(***************************************************************************)

\* \w of a regular expression: a letter, a digit or the underscore.
IsWordChar(c) ==
  LET k == CharCode(c)
  IN  \/ (k >= 48 /\ k <= 57)
      \/ (k >= 65 /\ k <= 90)
      \/ k = 95
      \/ (k >= 97 /\ k <= 122)

\* \b between the first p characters of s and the rest.
WordBoundaryAt(s, p) ==
  (p >= 1 /\ IsWordChar(s[p])) # (p < Len(s) /\ IsWordChar(s[p + 1]))

\* new RegExp("\\b" + escapeRegExp(token) + "\\b").test(line): the token as
\* written, with a word boundary on both sides.
regexTest(token_, line) ==
  \E i \in 0..(Len(line) - Len(token_)) :
    /\ SubSeq(line, i + 1, i + Len(token_)) = token_
    /\ WordBoundaryAt(line, i)
    /\ WordBoundaryAt(line, i + Len(token_))

\* The matches of one file, in line order; line numbers start at 1.
RECURSIVE matchesFrom(_, _, _)
matchesFrom(token_, file, i) ==
  IF i > Len(file.lines) THEN <<>>
  ELSE (IF regexTest(token_, file.lines[i])
        THEN <<[uri |-> file.uri, line |-> i, text |-> Trim(file.lines[i])]>>
        ELSE <<>>)
       \o matchesFrom(token_, file, i + 1)

fileMatches(token_, file) == matchesFrom(token_, file, 1)

RECURSIVE allMatches(_, _)
allMatches(token_, files_) ==
  IF files_ = <<>> THEN <<>>
  ELSE fileMatches(token_, Head(files_)) \o allMatches(token_, Tail(files_))

\* findMibMatches over the files it found: it returns at the fifth match.
findMibMatches(token_, files_) ==
  IF ~Truthy(token_) THEN <<>> ELSE Slice0(allMatches(token_, files_), 5)

\* Number to decimal string, as a template literal writes it.
RECURSIVE ToDecimal(_)
ToDecimal(n) ==
  IF n < 10 THEN <<CharOfCode(48 + n)>>
  ELSE ToDecimal(n \div 10) \o <<CharOfCode(48 + (n % 10))>>

detailPrefix(score) ==
  IF score = 3 THEN "Match: Name/ID"
  ELSE IF score = 2 THEN "Match: Parameter"
  ELSE "Match: Description"

\* The quick pick item of one ranked entry.
tcItem(entry, score) ==
  [ label       |-> IF Truthy(entry.name)
                    THEN entry.id \o <<" ", "(">> \o entry.name \o <<")">>
                    ELSE entry.id,
    description |-> IF entry.description = Undefined THEN <<>> ELSE entry.description,
    detail      |-> <<detailPrefix(score), " (bullet) ", entry.sourcePath>>,
    result      |-> [kind |-> "tc", entry |-> entry] ]

tcItems(ranked_) ==
  [k \in 1..Len(ranked_) |-> tcItem(ranked_[k].entry, ranked_[k].score)]

buildQuickPickItems(entryIndex_, query_, limit_) ==
  tcItems(rankEntries(entryIndex_, query_, limit_))

\* The quick pick item of one text match.
textItem(match) ==
  [ label       |-> match.uri.relative \o <<":">> \o ToDecimal(match.line),
    description |-> match.text,
    detail      |-> match.uri.fsPath,
    result      |-> [kind |-> "text", match |-> match] ]

\* updateItems up to its await: the items it leaves in the quick pick, and
\* whether it goes on to await findMibMatches.
updateItemsFrom(items, indexed, built, query_) ==
  IF indexed /\ Len(built) > 0 THEN [items |-> built, awaiting |-> FALSE]
  ELSE IF Len(Trim(query_)) = 0 THEN [items |-> <<>>, awaiting |-> FALSE]
  ELSE [items |-> IF indexed THEN built ELSE items, awaiting |-> TRUE]

updateItemsStart(items, entryIndex_, query_, limit_) ==
  updateItemsFrom(items, Len(entryIndex_) > 0,
                  buildQuickPickItems(entryIndex_, query_, limit_), query_)

\* updateItems after its await: the items made of the matches.
textItems(matches) == [k \in 1..Len(matches) |-> textItem(matches[k])]

updateItemsResume(query_, files_) == textItems(findMibMatches(query_, files_))

\* A call of buildMibIndexFromLines with the arguments given, in the order
\* of its parameters.  A list that is not passed is undefined, and the loop
\* over it throws TypeError.
callBuildMibIndexFromLines(args) ==
  IF Len(args) < 8 THEN [kind |-> "TypeError"]
  ELSE [ kind  |-> "index",
         index |-> buildMibIndexFromLines(
                     [ ccf |-> args[1], cdf |-> args[2], pid |-> args[3],
                       plf |-> args[4], pcf |-> args[5], cve |-> args[6],
                       cvp |-> args[7], txp |-> args[8] ]) ]

\* loadMibIndex on the payloads of the ccf.dat and cdf.dat files found: null
\* when there is no such file, otherwise what the builder gives when called
\* with the two payloads.  The cache is written after a build has returned.
loadMibIndex(ccfPayload, cdfPayload) ==
  IF Len(ccfPayload) + Len(cdfPayload) = 0 THEN [kind |-> "null"]
  ELSE callBuildMibIndexFromLines(<<ccfPayload, cdfPayload>>)

\* index.tcById.values(), or nothing without an index.
indexEntries(loaded) ==
  IF loaded.kind = "null" THEN <<>>
  ELSE [i \in 1..Len(loaded.index.tcById) |-> loaded.index.tcById[i].v]

\* The ccf.dat and cdf.dat files of the workspace: none, with rows, or empty.
EmptyDat(path) == [path |-> path, lines |-> <<E0>>]

QuickCcfPayloads == { <<>>, <<CcfFilePool[1]>>, <<EmptyDat("ws/ccf.dat")>> }

QuickCdfPayloads == { <<>>, <<CdfFilePool[1]>> }

\* The values typed into the quick pick.
QuickValues ==
  { <<>>, <<" ">>, <<"z", "z">>, <<"u", "p">>, <<"g", "o">>, sMODE }

PcfDat ==
  [ uri   |-> [fsPath |-> "/ws/mib/pcf.dat", relative |-> <<"m", "i", "b", "/", "p", "c", "f", ".", "d", "a", "t">>],
    lines |-> << <<"z", "z", " ", "M", "O", "D", "E">>, <<" ", "u", "p", "-", "z", "z", " ">>, <<"z", "z", "z">>, <<"g", "o", "_", "u", "p">>, <<"M", "O", "D", "E">> >> ]

PlfDat ==
  [ uri   |-> [fsPath |-> "/ws/mib/plf.dat", relative |-> <<"m", "i", "b", "/", "p", "l", "f", ".", "d", "a", "t">>],
    lines |-> << <<"z", "z">>, <<"z", "z", " ", "2">>, <<"3", " ", "z", "z">>, <<"g", "o", " ", "z", "z">>, <<"z", "z">>, <<"z", "z", " ", "u", "p">> >> ]

Workspaces == { <<>>, <<PcfDat>>, <<PlfDat, PcfDat>> }

\* At most MaxUpdates updateItems calls are started on one quick pick.
MaxUpdates == 3

\* runReverseSearch is called with a token or without one, on a workspace
\* with its ccf.dat, cdf.dat and other .dat files.
QuickInit ==
  /\ pc = "invoked"
  /\ \E c \in QuickCcfPayloads, d \in QuickCdfPayloads :
       files = [ ccf |-> c, cdf |-> d, pid |-> <<>>, plf |-> <<>>,
                 pcf |-> <<>>, cve |-> <<>>, cvp |-> <<>>, txp |-> <<>> ]
  /\ token \in {Undefined} \cup QuickValues
  /\ tokenLine = <<>>
  /\ uniqueFiles \in Workspaces
  /\ tcHeap = <<>>
  /\ tcById = <<>>
  /\ tcByName = <<>>
  /\ telemetryBySid = <<>>
  /\ pcfByParamId = <<>>
  /\ returned = <<>>
  /\ quickPick = [value |-> <<>>, items |-> <<>>]
  /\ updates = <<>>
  /\ SearchIdle
  /\ ParamIdle

\* The quick pick is created on what loadMibIndex returned: the value is the
\* token, or "" without one; the entry index is built; limit is 200.
Created(loaded) ==
  /\ pc' = "created"
  /\ entries' = indexEntries(loaded)
  /\ entryIndex' = buildEntrySearchIndex(indexEntries(loaded))
  /\ limit' = 200
  /\ quickPick' = [value |-> IF token = Undefined THEN <<>> ELSE token, items |-> <<>>]

\* loadMibIndex throws: runReverseSearch rejects and no quick pick is created.
Rejected ==
  /\ pc' = "rejected"
  /\ UNCHANGED <<entries, entryIndex, limit, quickPick>>

LoadedAs(loaded) == IF loaded.kind = "TypeError" THEN Rejected ELSE Created(loaded)

\* await loadMibIndex(maxFiles), then the lines up to updateItems.
LoadMibIndex ==
  /\ pc = "invoked"
  /\ LoadedAs(loadMibIndex(files.ccf, files.cdf))
  /\ UNCHANGED <<query, ranked, updates, uniqueFiles>>
  /\ UNCHANGED <<files, tcHeap, tcById, tcByName, telemetryBySid, pcfByParamId, returned>>
  /\ UNCHANGED <<paramVars, tokenVars>>

\* An updateItems call runs to its return or to its await.
Started(value, u) ==
  /\ quickPick' = [value |-> value, items |-> u.items]
  /\ updates' = Append(updates,
                       [ query |-> value,
                         state |-> IF u.awaiting THEN "awaiting" ELSE "completed" ])

StartUpdate(value) ==
  Started(value, updateItemsStart(quickPick.items, entryIndex, value, limit))

\* await updateItems(quickPick.value), before the quick pick is shown.
UpdateItemsFirst ==
  /\ pc = "created"
  /\ StartUpdate(quickPick.value)
  /\ pc' = "updating"
  /\ UNCHANGED uniqueFiles
  /\ UNCHANGED <<files, tcHeap, tcById, tcByName, telemetryBySid, pcfByParamId, returned>>
  /\ UNCHANGED <<searchVars, paramVars, tokenVars>>

\* quickPick.show(), once the first updateItems has completed.
Show ==
  /\ pc = "updating"
  /\ updates[1].state = "completed"
  /\ pc' = "shown"
  /\ UNCHANGED quickVars
  /\ UNCHANGED <<files, tcHeap, tcById, tcByName, telemetryBySid, pcfByParamId, returned>>
  /\ UNCHANGED <<searchVars, paramVars, tokenVars>>

\* onDidChangeValue: the user has changed the value, and updateItems(value)
\* is started and not awaited.
OnDidChangeValue ==
  /\ pc = "shown"
  /\ Len(updates) < MaxUpdates
  /\ \E value \in QuickValues \ {quickPick.value} : StartUpdate(value)
  /\ UNCHANGED <<pc, uniqueFiles>>
  /\ UNCHANGED <<files, tcHeap, tcById, tcByName, telemetryBySid, pcfByParamId, returned>>
  /\ UNCHANGED <<searchVars, paramVars, tokenVars>>

\* The findMibMatches promise of one started updateItems resolves, and the
\* call assigns its items; the promises resolve in any order.
FindMibMatchesResolves ==
  /\ pc \in {"updating", "shown"}
  /\ \E k \in 1..Len(updates) :
       /\ updates[k].state = "awaiting"
       /\ quickPick' = [quickPick EXCEPT
                          !.items = updateItemsResume(updates[k].query, uniqueFiles)]
       /\ updates' = [updates EXCEPT ![k].state = "completed"]
  /\ UNCHANGED <<pc, uniqueFiles>>
  /\ UNCHANGED <<files, tcHeap, tcById, tcByName, telemetryBySid, pcfByParamId, returned>>
  /\ UNCHANGED <<searchVars, paramVars, tokenVars>>

QuickNext ==
  \/ LoadMibIndex
  \/ UpdateItemsFirst
  \/ Show
  \/ OnDidChangeValue
  \/ FindMibMatchesResolves

QuickSpec == QuickInit /\ [][QuickNext]_vars

(***************************************************************************)
(* The claims about ranking and classification.                            *)
(***************************************************************************)

\* q occurs in s: s is some prefix, then q, then some suffix.
IsSubstring(q, s) ==
  \E i \in 1..(Len(s) + 1) : \E j \in (i - 1)..Len(s) : SubSeq(s, i, j) = q

EqualsIgnoreCase(a, b) ==
  Len(a) = Len(b) /\ \A i \in 1..Len(a) : LowerChar(a[i]) = LowerChar(b[i])

\* The tier of an entry for a lower-cased, non-empty query, from the entry
\* alone.
Tier(e, q) ==
  IF \/ IsSubstring(q, ToLowerCase(e.id))
     \/ (e.name # Undefined /\ IsSubstring(q, ToLowerCase(e.name)))
  THEN 3
  ELSE IF \E j \in 1..Len(e.params) : IsSubstring(q, ToLowerCase(e.params[j].name))
  THEN 2
  ELSE IF e.description # Undefined /\ IsSubstring(q, ToLowerCase(e.description))
  THEN 1
  ELSE 0

QueryLower == ToLowerCase(query)

\* The score the claims give an entry, and the positions of the retained ones.
ClaimedScore(e) == IF QueryLower = <<>> THEN 0 ELSE Tier(e, QueryLower)

RetainedPositions ==
  {i \in 1..Len(entries) : QueryLower = <<>> \/ Tier(entries[i], QueryLower) > 0}

RankedEntrySet == {ranked[k].entry : k \in 1..Len(ranked)}

\* C3: for a non-empty query every entry gets, from its own fields alone,
\* 3 if the lower-cased query is in its lower-cased id or name, else 2 if it
\* is in a lower-cased parameter name, else 1 if it is in the lower-cased
\* description, else 0; the returned items carry that score.
C3_TieredScore ==
  (pc = "ranked" /\ QueryLower # <<>>) =>
    /\ \A i \in 1..Len(entries) :
         scoreEntryMatch(entryIndex[i], QueryLower) = Tier(entries[i], QueryLower)
    /\ \A k \in 1..Len(ranked) :
         ranked[k].score = Tier(ranked[k].entry, QueryLower)

\* C3 witness: a result holding an entry of each of the scores 3, 2 and 1.
C3_Witness ==
  /\ pc = "ranked"
  /\ QueryLower # <<>>
  /\ {ranked[k].score : k \in 1..Len(ranked)} = {1, 2, 3}

\* x ranks strictly before y: a higher score, or the same score and a
\* smaller id.
RanksBefore(x, y) ==
  \/ ClaimedScore(x) > ClaimedScore(y)
  \/ ClaimedScore(x) = ClaimedScore(y) /\ localeCompare(x.id, y.id) < 0

\* C4: the result is the first min(limit, n) of the n retained entries in
\* the order score descending, then id ascending; no retained entry left out
\* ranks before one that is in; limit 0 gives the empty result.
C4_SortedThenTruncated ==
  pc = "ranked" =>
    /\ Len(ranked) = IF limit < Cardinality(RetainedPositions) THEN limit
                     ELSE Cardinality(RetainedPositions)
    /\ RankedEntrySet \subseteq {entries[i] : i \in RetainedPositions}
    /\ Cardinality(RankedEntrySet) = Len(ranked)
    /\ \A k, l \in 1..Len(ranked) :
         k < l => /\ ranked[k].score >= ranked[l].score
                  /\ ~RanksBefore(ranked[l].entry, ranked[k].entry)
    /\ \A i \in RetainedPositions :
         entries[i] \notin RankedEntrySet =>
           \A k \in 1..Len(ranked) : ~RanksBefore(entries[i], ranked[k].entry)
    /\ (limit = 0 => ranked = <<>>)

\* C4 witness: a result cut to limit, with two entries of one score ordered
\* by id and a retained entry left out.
C4_Witness ==
  /\ pc = "ranked"
  /\ limit >= 2
  /\ Len(ranked) = limit
  /\ Cardinality(RetainedPositions) > limit
  /\ ranked[1].score = ranked[2].score
  /\ \E i \in RetainedPositions : ClaimedScore(entries[i]) < ranked[2].score

\* C5: an entry is retained iff the query is empty or its score is positive:
\* an empty query with limit >= the number of entries returns every entry
\* with score 0; a non-empty query returns no score 0 and, with such a limit,
\* every entry of score >= 1.
C5_RetainedIffEmptyOrMatch ==
  pc = "ranked" =>
    /\ (QueryLower = <<>> /\ limit >= Len(entries)) =>
         /\ Len(ranked) = Len(entries)
         /\ RankedEntrySet = SeqRange(entries)
         /\ \A k \in 1..Len(ranked) : ranked[k].score = 0
    /\ QueryLower # <<>> => \A k \in 1..Len(ranked) : ranked[k].score > 0
    /\ (QueryLower # <<>> /\ limit >= Len(entries)) =>
         RankedEntrySet = {entries[i] : i \in RetainedPositions}
    /\ RankedEntrySet \subseteq {entries[i] : i \in RetainedPositions}

\* C5 witness: the empty query returned all of at least two entries.
C5_Witness ==
  /\ pc = "ranked"
  /\ query = <<>>
  /\ Len(entries) >= 2
  /\ limit >= Len(entries)
  /\ Len(ranked) = Len(entries)

\* C6: isRequiredParam gives a boolean for every name and kind, and gives
\* false iff the name is empty, or is "filler" ignoring case, or the kind
\* upper-cased is "A"; an absent or empty kind gives true otherwise.
C6_RequiredIff ==
  pc = "classified" =>
    /\ required \in BOOLEAN
    /\ required = FALSE <=>
         \/ paramName = <<>>
         \/ EqualsIgnoreCase(paramName, sFiller)
         \/ (paramKind # Undefined /\ EqualsIgnoreCase(paramKind, <<"A">>))

\* C6 witness: a named parameter with no kind was classified as required.
C6_Witness ==
  /\ pc = "classified"
  /\ paramKind = Undefined
  /\ paramName # <<>>
  /\ required = TRUE

\* C12: getTelecommandTokenFromLine gives no token for an empty or white
\* space only line; for any other line it gives the first white-space
\* delimited token: a non-empty string without white space that is the
\* prefix of the trimmed line up to its first white space character.
C12_FirstToken ==
  pc = "tokenized" =>
    LET trimmed == Trim(tokenLine)
    IN  IF \A i \in 1..Len(tokenLine) : IsWhiteSpace(tokenLine[i])
        THEN token = Undefined
        ELSE /\ token # Undefined
             /\ Len(token) >= 1
             /\ \A i \in 1..Len(token) : ~IsWhiteSpace(token[i])
             /\ Len(token) <= Len(trimmed)
             /\ SubSeq(trimmed, 1, Len(token)) = token
             /\ (Len(token) < Len(trimmed)
                   => IsWhiteSpace(trimmed[Len(token) + 1]))

\* C12 witness: a line with leading white space and two tokens gave its
\* first token.
C12_Witness ==
  /\ pc = "tokenized"
  /\ Len(tokenLine) >= 4
  /\ IsWhiteSpace(tokenLine[1])
  /\ token # Undefined
  /\ Len(token) + 2 < Len(tokenLine)
  /\ ~IsWhiteSpace(tokenLine[Len(tokenLine)])

\* A string in another letter case: all upper, all lower, or every letter
\* switched.
SwapChar(c) == IF LowerChar(c) # c THEN LowerChar(c) ELSE UpperChar(c)

CaseModes == {"upper", "lower", "swap"}

Recase(v, mode) ==
  IF v = Undefined THEN Undefined
  ELSE IF mode = "upper" THEN ToUpperCase(v)
  ELSE IF mode = "lower" THEN ToLowerCase(v)
  ELSE [i \in 1..Len(v) |-> SwapChar(v[i])]

CaseFields == {"id", "name", "params", "description"}

\* The entries with the fields named in fields written in another case.
RecaseEntry(e, mode, fields) ==
  [ e EXCEPT
      !.id          = IF "id" \in fields THEN Recase(@, mode) ELSE @,
      !.name        = IF "name" \in fields THEN Recase(@, mode) ELSE @,
      !.description = IF "description" \in fields THEN Recase(@, mode) ELSE @,
      !.params      = IF "params" \in fields
                      THEN [j \in 1..Len(@) |->
                              [@[j] EXCEPT !.name = Recase(@, mode)]]
                      ELSE @ ]

RecaseEntries(es, mode, fields) ==
  [i \in 1..Len(es) |-> RecaseEntry(es[i], mode, fields)]

\* The score rankEntries gives each of the entries es for the query q, and
\* the positions in es of the entries it returns.
ScoresFor(es, q) ==
  LET scored == scoreAll(buildEntrySearchIndex(es), ToLowerCase(q))
  IN  [i \in 1..Len(es) |-> scored[i].score]

ReturnedPositions(es, q, l) ==
  LET result == rankEntries(buildEntrySearchIndex(es), q, l)
  IN  {i \in 1..Len(es) : \E k \in 1..Len(result) : result[k].entry = es[i]}

\* C13 as claimed: writing the query, or the ids, names, parameter names and
\* descriptions of the entries, in another letter case changes neither the
\* score of any entry nor the set of returned entries.
C13_CaseChangesNothing ==
  pc = "ranked" =>
    /\ \A mode \in CaseModes :
         /\ ScoresFor(entries, Recase(query, mode)) = ScoresFor(entries, query)
         /\ ReturnedPositions(entries, Recase(query, mode), limit)
              = ReturnedPositions(entries, query, limit)
    /\ \A mode \in CaseModes : \A fields \in SUBSET CaseFields :
         /\ ScoresFor(RecaseEntries(entries, mode, fields), query)
              = ScoresFor(entries, query)
         /\ ReturnedPositions(RecaseEntries(entries, mode, fields), query, limit)
              = ReturnedPositions(entries, query, limit)

\* C13 amended: another letter case of the query or of the entries' ids,
\* names, parameter names and descriptions changes no entry's score, and
\* leaves the set of returned entries as it is when the ids keep their case
\* or when limit does not cut the result; the case of an id takes part in
\* the order of entries with equal scores, so with a smaller limit it can
\* decide which of them are returned.
C13_CaseChangesNoScore ==
  pc = "ranked" =>
    /\ ScoresFor(entries, query) = [i \in 1..Len(entries) |-> ClaimedScore(entries[i])]
    /\ \A mode \in CaseModes :
         /\ ScoresFor(entries, Recase(query, mode)) = ScoresFor(entries, query)
         /\ rankEntries(entryIndex, Recase(query, mode), limit) = ranked
    /\ \A mode \in CaseModes : \A fields \in SUBSET CaseFields :
         /\ ScoresFor(RecaseEntries(entries, mode, fields), query)
              = ScoresFor(entries, query)
         /\ ("id" \notin fields \/ limit >= Cardinality(RetainedPositions))
              => ReturnedPositions(RecaseEntries(entries, mode, fields), query, limit)
                   = ReturnedPositions(entries, query, limit)

\* C13 witness: a query written in mixed case matched entries through an
\* upper-case name, a lower-case parameter name and a mixed-case description.
C13_Witness ==
  /\ pc = "ranked"
  /\ query # ToLowerCase(query)
  /\ query # ToUpperCase(query)
  /\ {ranked[k].score : k \in 1..Len(ranked)} = {1, 2, 3}
  /\ \E k \in 1..Len(ranked) :
       ranked[k].entry.name # Undefined
         /\ ranked[k].entry.name # ToLowerCase(ranked[k].entry.name)

\* What the search layer holds is what it was given: the index is the one
\* built from the entries, and the last result is the one rankEntries gives
\* for the last query and limit on that index, whatever calls came before.
C22_IndexAsBuilt ==
  /\ pc \in {"indexed", "ranked"} => entryIndex = buildEntrySearchIndex(entries)
  /\ \A i \in 1..Len(entryIndex) :
       /\ entryIndex[i].entry = entries[i]
       /\ entryIndex[i].idLower = ToLowerCase(entries[i].id)
  /\ pc = "ranked" =>
       ranked = rankEntries(buildEntrySearchIndex(entries), query, limit)

\* No call changes a TcEntry, and no rankEntries call changes the index.
C22_CallsKeepInput ==
  /\ entries' = entries
  /\ pc \in {"indexed", "ranked"} => entryIndex' = entryIndex

\* C22: the search layer is read-only: after any sequence of rankEntries
\* calls entryIndex holds the same items in the same order with the same
\* idLower, nameLower, descLower and paramNamesLower, neither
\* buildEntrySearchIndex nor rankEntries changes a TcEntry or its params, and
\* so a rankEntries call with the same query and limit gives the same
\* result.
C22_SearchIsReadOnly == []C22_IndexAsBuilt /\ [][C22_CallsKeepInput]_vars

\* C22 witness: a ranking returned at least two entries in an order other
\* than the one they have in the index.
C22_Witness ==
  /\ pc = "ranked"
  /\ Len(ranked) >= 2
  /\ \E a, b \in 1..Len(entries) :
       a < b /\ ranked[1].entry = entries[b] /\ ranked[2].entry = entries[a]

\* The non-empty strings contained in q.
SubstringsOf(q) ==
  {SubSeq(q, i, j) : i \in 1..Len(q), j \in 1..Len(q)} \ {<<>>}

\* C24: refining a query never adds results.  For non-empty queries q1
\* and q2 with q1 contained in q2, every entry scores at least as much for
\* q1 as for q2, and with a limit of at least the number of entries the
\* entries returned for q2 are among those returned for q1.
C24_RefiningNeverAdds ==
  (pc = "ranked" /\ query # <<>>) =>
    \A q1 \in SubstringsOf(query) :
      /\ \A i \in 1..Len(entries) :
           /\ ScoresFor(entries, q1)[i] >= ScoresFor(entries, query)[i]
           /\ scoreEntryMatch(entryIndex[i], ToLowerCase(q1))
                >= scoreEntryMatch(entryIndex[i], ToLowerCase(query))
      /\ limit >= Len(entries) =>
           /\ ReturnedPositions(entries, query, limit)
                \subseteq ReturnedPositions(entries, q1, limit)
           /\ RankedEntrySet
                \subseteq {r.entry : r \in SeqRange(rankEntries(entryIndex, q1, limit))}

\* A query returning an entry on its description alone has been refined from
\* a shorter one that matches the same entry by name and returns more entries.
C24_Witness ==
  /\ pc = "ranked"
  /\ limit >= Len(entries)
  /\ \E q1 \in SubstringsOf(query) :
       /\ q1 # query
       /\ \E i \in 1..Len(entries) :
            /\ ScoresFor(entries, query)[i] = 1
            /\ ScoresFor(entries, q1)[i] = 3
       /\ ReturnedPositions(entries, query, limit) # {}
       /\ ReturnedPositions(entries, query, limit)
            # ReturnedPositions(entries, q1, limit)

\* Every updateItems call started so far has run to its end.
AllUpdatesCompleted ==
  \A k \in 1..Len(updates) : updates[k].state = "completed"

\* The items an updateItems call on the value, run alone to its end, leaves.
EndOf(u, value) ==
  IF u.awaiting THEN updateItemsResume(value, uniqueFiles) ELSE u.items

ItemsFor(value) == EndOf(updateItemsStart(<<>>, entryIndex, value, limit), value)

\* C25: in the shown quick pick, under any interleaving of the updateItems
\* calls the value changes have started, once every started call has
\* completed the items are those computed for the most recent value.
C25_LatestValueWins ==
  (pc = "shown" /\ AllUpdatesCompleted) => quickPick.items = ItemsFor(quickPick.value)

====
